---- MODULE Spec2Model ----
(***************************************************************************)
(* A model of the local heuristic reasoning agent of the deepfake detector *)
(* (src/src/local_agent.py): frame artifact scoring, temporal consistency  *)
(* scoring and verdict synthesis.                                          *)
(*                                                                         *)
(* The agent object holds only its loaded rules; every method is a         *)
(* function of its arguments, the rules and (through the iteration order   *)
(* of a set of strings) the interpreter's string-hash seed.  The state is  *)
(* therefore the agent's rules, the process's hash seed, and the current   *)
(* call: its operation, its arguments and what it returned.  A behaviour   *)
(* starts with the agent constructed and a first call made.                *)
(*                                                                         *)
(* Numbers.  Python floats are modelled as exact rationals [n, d] in       *)
(* lowest terms; inputs are drawn from decimal grids that contain every    *)
(* breakpoint of the code.  Binary rounding of floats is not modelled.     *)
(*                                                                         *)
(* Frames.  The OpenCV measurements of a frame (Laplacian variance,        *)
(* standard deviation of the Sobel gradient magnitude, Canny edge pixels)  *)
(* are library results; a frame is modelled by these measurements together *)
(* with its grey-level pixels, which the temporal analysis reads.          *)
(***************************************************************************)
EXTENDS Integers, Sequences, FiniteSets, TLC

VARIABLES
    rules,      \* LocalAgentRunner.rules, loaded once at construction
    hash_seed,  \* the process's string-hash seed (fixes set iteration order)
    pc,         \* "constructed", "called" (a call is running) or "returned"
    op,         \* the method of the current call
    args,       \* its arguments
    result,     \* what it returned (or the exception it raised)
    earlier,    \* the synthesize_verdict call that returned before the current one
    manager,    \* PluginManager.frame_samplers and analysis_hooks
    analyzer    \* ParallelLLMAnalyzer: its settings, semaphore and futures

vars == <<rules, hash_seed, pc, op, args, result, earlier, manager, analyzer>>

(***************************************************************************)
(* Bounds of the model.                                                    *)
(***************************************************************************)
MaxFrames == 3
NumSeeds == 2

(***************************************************************************)
(* Exact rational arithmetic.                                              *)
(***************************************************************************)
Abs(x) == IF x < 0 THEN -x ELSE x

RECURSIVE GCD(_, _)
GCD(a, b) == IF b = 0 THEN a ELSE GCD(b, a % b)

\* n/d in lowest terms, d > 0
Rat(n, d) ==
    LET g == GCD(Abs(n), d) IN [n |-> n \div g, d |-> d \div g]

RInt(k) == [n |-> k, d |-> 1]
RAdd(a, b) == Rat(a.n * b.d + b.n * a.d, a.d * b.d)
RSub(a, b) == Rat(a.n * b.d - b.n * a.d, a.d * b.d)
RMul(a, b) == Rat(a.n * b.n, a.d * b.d)
RDivInt(a, k) == Rat(a.n, a.d * k)
RLt(a, b) == a.n * b.d < b.n * a.d
RLeq(a, b) == a.n * b.d <= b.n * a.d
RGeq(a, b) == RLeq(b, a)
RGt(a, b) == RLt(b, a)
RFloor(a) == a.n \div a.d

\* Python int(x) on a float: truncation toward zero
PyInt(a) == IF a.n >= 0 THEN a.n \div a.d ELSE -((-a.n) \div a.d)

\* Python min(a, b) on integers
PyMin(a, b) == IF b < a THEN b ELSE a

\* Python max(a, b) on integers
PyMax(a, b) == IF b > a THEN b ELSE a

Zero == RInt(0)
One == RInt(1)

(***************************************************************************)
(* Python dicts: functions on the keys present.                            *)
(***************************************************************************)
EmptyDict == [k \in {} |-> 0]

\* d.get(k, default)
Get(d, k, default) == IF k \in DOMAIN d THEN d[k] ELSE default

Range(s) == {s[i] : i \in DOMAIN s}

(***************************************************************************)
(* Rules.                                                                  *)
(***************************************************************************)
\* _get_default_rules
get_default_rules ==
    [visual_rules |->
        [facial_smoothing |-> [weight |-> Rat(25, 100)],
         lighting_inconsistency |-> [weight |-> Rat(20, 100)],
         boundary_artifacts |-> [weight |-> Rat(20, 100)]],
     temporal_rules |->
        [motion_continuity |-> [weight |-> Rat(30, 100)],
         temporal_artifacts |-> [weight |-> Rat(50, 100)]],
     confidence_calculation |->
        [high_confidence_threshold |-> Rat(75, 100),
         moderate_confidence_threshold |-> Rat(55, 100),
         uncertain_threshold |-> Rat(45, 100)]]

(***************************************************************************)
(* Texts.  A line of text is its fixed wording together with the numbers   *)
(* an f-string puts into it; a finding is one line, a multi-line text a    *)
(* sequence of lines.                                                      *)
(***************************************************************************)
Line(text, nums) == [text |-> text, frames |-> nums]

Finding(text) == Line(text, <<>>)

LowTextureFinding == Finding("Low texture variance detected (potential smoothing)")
ModerateTextureFinding == Finding("Moderate texture variance (some smoothing possible)")
UniformLightingFinding == Finding("Uniform lighting detected (potentially artificial)")
LowEdgeFinding == Finding("Low edge density (possible boundary blending)")
HighEdgeFinding == Finding("High edge density (possible artifacts)")

\* The words of a finding's text, lower-cased, that the code searches for.
Keywords(f) ==
    CASE f.text = "Low texture variance detected (potential smoothing)" -> {"texture", "smoothing"}
      [] f.text = "Moderate texture variance (some smoothing possible)" -> {"texture", "smoothing"}
      [] f.text = "Uniform lighting detected (potentially artificial)" -> {"lighting"}
      [] OTHER -> {}

(***************************************************************************)
(* _detect_visual_artifacts                                                *)
(***************************************************************************)
\* artifacts as initialised, before any rule is applied
InitialArtifacts ==
    [facial_smoothing |-> Zero, lighting_inconsistency |-> Zero,
     boundary_artifacts |-> Zero, resolution_mismatch |-> Zero,
     findings |-> <<>>]

\* 1. facial smoothing from the Laplacian variance
SmoothingRule(artifacts, laplacian_var) ==
    IF laplacian_var < 100
    THEN [artifacts EXCEPT !.facial_smoothing = Rat(7, 10),
                           !.findings = Append(@, LowTextureFinding)]
    ELSE IF laplacian_var < 200
    THEN [artifacts EXCEPT !.facial_smoothing = Rat(4, 10),
                           !.findings = Append(@, ModerateTextureFinding)]
    ELSE artifacts

\* 2. lighting inconsistency from the gradient magnitude's standard deviation
LightingRule(artifacts, grad_std) ==
    IF grad_std < 20
    THEN [artifacts EXCEPT !.lighting_inconsistency = Rat(6, 10),
                           !.findings = Append(@, UniformLightingFinding)]
    ELSE artifacts

\* edge_density = np.sum(edges > 0) / edges.size
EdgeDensity(frame) == Rat(frame.edge_pixels, frame.size)

\* (variant for C7: the upper breakpoint taken inclusively)
BoundaryRuleInclusive(artifacts, edge_density) ==
    IF RLt(edge_density, Rat(5, 100))
    THEN [artifacts EXCEPT !.boundary_artifacts = Rat(5, 10),
                           !.findings = Append(@, LowEdgeFinding)]
    ELSE IF RGeq(edge_density, Rat(20, 100))
    THEN [artifacts EXCEPT !.boundary_artifacts = Rat(4, 10),
                           !.findings = Append(@, HighEdgeFinding)]
    ELSE artifacts

\* 3. boundary artifacts from the edge density
BoundaryRule(artifacts, edge_density) ==
    IF RLt(edge_density, Rat(5, 100))
    THEN [artifacts EXCEPT !.boundary_artifacts = Rat(5, 10),
                           !.findings = Append(@, LowEdgeFinding)]
    ELSE IF RGt(edge_density, Rat(20, 100))
    THEN [artifacts EXCEPT !.boundary_artifacts = Rat(4, 10),
                           !.findings = Append(@, HighEdgeFinding)]
    ELSE artifacts

\* (variant for C8: a missing weight counted as 1.0)
VisualWeightOne(r, kind, default) ==
    Get(Get(Get(r, "visual_rules", EmptyDict), kind, EmptyDict), "weight", One)

\* weights.get(kind, {}).get('weight', default), weights = rules.get('visual_rules', {})
VisualWeight(r, kind, default) ==
    Get(Get(Get(r, "visual_rules", EmptyDict), kind, EmptyDict), "weight", default)

\* 4. the weighted total
\* (variant for C30: the three scores added up unweighted)
TotalScoreUnweighted(artifacts, r) ==
    RAdd(RAdd(artifacts.facial_smoothing, artifacts.lighting_inconsistency),
         artifacts.boundary_artifacts)

TotalScore(artifacts, r) ==
    RAdd(RAdd(RMul(artifacts.facial_smoothing,
                   VisualWeight(r, "facial_smoothing", Rat(25, 100))),
              RMul(artifacts.lighting_inconsistency,
                   VisualWeight(r, "lighting_inconsistency", Rat(20, 100)))),
         RMul(artifacts.boundary_artifacts,
              VisualWeight(r, "boundary_artifacts", Rat(20, 100))))

detect_visual_artifacts(frame, r) ==
    LET a1 == SmoothingRule(InitialArtifacts, frame.laplacian_var)
        a2 == LightingRule(a1, frame.grad_std)
        a3 == BoundaryRule(a2, EdgeDensity(frame))
    IN  [facial_smoothing |-> a3.facial_smoothing,
         lighting_inconsistency |-> a3.lighting_inconsistency,
         boundary_artifacts |-> a3.boundary_artifacts,
         resolution_mismatch |-> a3.resolution_mismatch,
         findings |-> a3.findings,
         total_score |-> TotalScore(a3, r)]

\* f"{x:.2f}": x rounded to hundredths (ties to even), as a count of hundredths
Format2f(x) ==
    LET h == RMul(x, RInt(100))
        q == RFloor(h)
        rest == RSub(h, RInt(q))
    IN  IF RGt(rest, Rat(1, 2)) THEN q + 1
        ELSE IF RLt(rest, Rat(1, 2)) THEN q
        ELSE IF q % 2 = 0 THEN q ELSE q + 1

\* _format_frame_analysis
format_frame_analysis(frame_index, artifacts) ==
    LET findings == Get(artifacts, "findings", <<>>)
        score == Get(artifacts, "total_score", Zero)
    IN  IF findings = <<>>
        THEN <<Line("Frame: No significant artifacts detected. Visual quality appears natural.",
                    <<frame_index>>)>>
        ELSE <<Line("Frame Analysis:", <<frame_index>>)>>
             \o findings
             \o <<IF RGt(score, Rat(6, 10))
                  THEN Line("Overall artifact score: (HIGH - suspicious)", <<Format2f(score)>>)
                  ELSE IF RGt(score, Rat(3, 10))
                  THEN Line("Overall artifact score: (MODERATE)", <<Format2f(score)>>)
                  ELSE Line("Overall artifact score: (LOW - appears natural)", <<Format2f(score)>>)>>

analyze_frame(frame, frame_index, r) ==
    LET artifacts == detect_visual_artifacts(frame, r)
    IN  [frame_index |-> frame_index,
         artifacts_detected |-> artifacts,
         analysis |-> format_frame_analysis(frame_index, artifacts),
         artifact_score |-> artifacts.total_score]

(***************************************************************************)
(* analyze_temporal_sequence                                               *)
(***************************************************************************)
RECURSIVE SumAbsDiff(_, _, _)
SumAbsDiff(g1, g2, p) ==
    IF p > Len(g1) THEN 0 ELSE Abs(g1[p] - g2[p]) + SumAbsDiff(g1, g2, p + 1)

\* np.mean(cv2.absdiff(frame1_gray, frame2_gray))
MotionScore(frame1, frame2) ==
    Rat(SumAbsDiff(frame1.gray, frame2.gray, 1), Len(frame1.gray))

LargeMotionFinding(a, b) ==
    Line("Large motion discontinuity between frames", <<a, b>>)

LowMotionFinding(a, b) ==
    Line("Very low motion between frames (potentially static/frozen)", <<a, b>>)

\* (variant for C10: both breakpoints taken inclusively)
MotionKindInclusive(motion_score) ==
    IF RGeq(motion_score, RInt(50)) THEN "large"
    ELSE IF RLeq(motion_score, RInt(5)) THEN "low"
    ELSE "none"

\* which finding a pair gets: "large", "low" or "none"
MotionKind(motion_score) ==
    IF RGt(motion_score, RInt(50)) THEN "large"
    ELSE IF RLt(motion_score, RInt(5)) THEN "low"
    ELSE "none"

\* the frame number an f-string reads for the pair's frame at Python index i
NamedIndex(frame_indices, i) == frame_indices[i + 1]

\* The loop over i in range(len(frames) - 1), from Python index i on.  The
\* f-string of a finding reads frame_indices[i] and frame_indices[i+1]; a
\* list too short for that raises IndexError.
RECURSIVE TemporalLoop(_, _, _, _)
TemporalLoop(frames, frame_indices, i, temporal_findings) ==
    IF i >= Len(frames) - 1
    THEN [raised |-> "", findings |-> temporal_findings]
    ELSE LET kind == MotionKind(MotionScore(frames[i + 1], frames[i + 2]))
         IN  IF kind = "none"
             THEN TemporalLoop(frames, frame_indices, i + 1, temporal_findings)
             ELSE IF i + 1 >= Len(frame_indices)
             THEN [raised |-> "IndexError", findings |-> temporal_findings]
             ELSE LET a == NamedIndex(frame_indices, i)
                      b == NamedIndex(frame_indices, i + 1)
                  IN  TemporalLoop(frames, frame_indices, i + 1,
                                   Append(temporal_findings,
                                          IF kind = "large"
                                          THEN LargeMotionFinding(a, b)
                                          ELSE LowMotionFinding(a, b)))

\* (variant for C9: the pairs counted one short)
TemporalScoreShort(temporal_findings, frames) ==
    Rat(Len(temporal_findings), PyMax(Len(frames) - 2, 1))

\* len(temporal_findings) / max(len(frames) - 1, 1)
TemporalScore(temporal_findings, frames) ==
    Rat(Len(temporal_findings), PyMax(Len(frames) - 1, 1))

TemporalText(temporal_findings, frames) ==
    IF temporal_findings = <<>>
    THEN <<Line("Temporal analysis across frames: Motion appears continuous and natural.",
                <<Len(frames)>>)>>
    ELSE <<Line("Temporal analysis across frames:", <<Len(frames)>>)>> \o temporal_findings

\* the call's outcome: the exception raised, or the value returned
Returned(value) == [raised |-> "", value |-> value]
Raised(exception) == [raised |-> exception, value |-> EmptyDict]

analyze_temporal_sequence(frames, frame_indices) ==
    LET loop == TemporalLoop(frames, frame_indices, 0, <<>>)
    IN  IF loop.raised # ""
        THEN Raised(loop.raised)
        ELSE Returned([num_frames |-> Len(frames),
                       temporal_findings |-> loop.findings,
                       analysis |-> TemporalText(loop.findings, frames),
                       temporal_score |-> TemporalScore(loop.findings, frames)])

(***************************************************************************)
(* synthesize_verdict                                                      *)
(***************************************************************************)
\* [fa.get('artifact_score', 0.0) for fa in frame_analyses]
ArtifactScores(frame_analyses) ==
    [i \in DOMAIN frame_analyses |-> Get(frame_analyses[i], "artifact_score", Zero)]

RECURSIVE RSum(_, _)
RSum(xs, i) == IF i > Len(xs) THEN Zero ELSE RAdd(xs[i], RSum(xs, i + 1))

RECURSIVE RMaxFrom(_, _)
RMaxFrom(xs, i) ==
    IF i = Len(xs) THEN xs[i]
    ELSE LET m == RMaxFrom(xs, i + 1) IN IF RGt(xs[i], m) THEN xs[i] ELSE m

\* np.mean(xs) and np.max(xs) of a non-empty list
np_mean(xs) == RDivInt(RSum(xs, 1), Len(xs))
np_max(xs) == RMaxFrom(xs, 1)

\* np.mean(artifact_scores) if artifact_scores else 0.0
AvgArtifactScore(artifact_scores) ==
    IF artifact_scores # <<>> THEN np_mean(artifact_scores) ELSE Zero

\* np.max(artifact_scores) if artifact_scores else 0.0
MaxArtifactScore(artifact_scores) ==
    IF artifact_scores # <<>> THEN np_max(artifact_scores) ELSE Zero

\* (variant for C2: the two weights exchanged)
CombinedScoreExchanged(avg_artifact_score, temporal_score) ==
    RAdd(RMul(avg_artifact_score, Rat(4, 10)), RMul(temporal_score, Rat(6, 10)))

\* (avg_artifact_score * 0.6) + (temporal_score * 0.4)
CombinedScore(avg_artifact_score, temporal_score) ==
    RAdd(RMul(avg_artifact_score, Rat(6, 10)), RMul(temporal_score, Rat(4, 10)))

\* thresholds.get(name, default), thresholds = rules.get('confidence_calculation', {})
Threshold(r, name, default) ==
    Get(Get(r, "confidence_calculation", EmptyDict), name, default)

\* int(base + diff * slope)
Confidence(base, diff, slope) ==
    PyInt(RAdd(RInt(base), RMul(diff, RInt(slope))))

\* (variant for C1: the strict comparison, which a score equal to the
\* threshold fails)
ExceedsThreshold(combined_score, thresh) == RGt(combined_score, thresh)

\* combined_score >= thresh: a score equal to the threshold passes the test
ReachesThreshold(combined_score, thresh) == RGeq(combined_score, thresh)

\* (variant for C4: the test of the UNCERTAIN branch turned round)
ClassificationTurned(combined_score, r) ==
    LET high_thresh == Threshold(r, "high_confidence_threshold", Rat(75, 100))
        mod_thresh == Threshold(r, "moderate_confidence_threshold", Rat(55, 100))
        uncertain_thresh == Threshold(r, "uncertain_threshold", Rat(45, 100))
    IN  IF ReachesThreshold(combined_score, high_thresh) THEN "FAKE"
        ELSE IF ReachesThreshold(combined_score, mod_thresh) THEN "LIKELY FAKE"
        ELSE IF RLeq(combined_score, uncertain_thresh) THEN "UNCERTAIN"
        ELSE IF ReachesThreshold(combined_score, Rat(25, 100)) THEN "LIKELY REAL"
        ELSE "REAL"

\* the label chosen by the if/elif chain
Classification(combined_score, r) ==
    LET high_thresh == Threshold(r, "high_confidence_threshold", Rat(75, 100))
        mod_thresh == Threshold(r, "moderate_confidence_threshold", Rat(55, 100))
        uncertain_thresh == Threshold(r, "uncertain_threshold", Rat(45, 100))
    IN  IF ReachesThreshold(combined_score, high_thresh) THEN "FAKE"
        ELSE IF ReachesThreshold(combined_score, mod_thresh) THEN "LIKELY FAKE"
        ELSE IF ReachesThreshold(combined_score, uncertain_thresh) THEN "UNCERTAIN"
        ELSE IF ReachesThreshold(combined_score, Rat(25, 100)) THEN "LIKELY REAL"
        ELSE "REAL"

\* (variant for C5: the cap left out)
Uncapped(x) == x

\* min(95, x)
CapAt95(x) == PyMin(95, x)

\* the confidence computed in the branch of that label
ConfidenceOf(classification, combined_score, r) ==
    LET high_thresh == Threshold(r, "high_confidence_threshold", Rat(75, 100))
        mod_thresh == Threshold(r, "moderate_confidence_threshold", Rat(55, 100))
        uncertain_thresh == Threshold(r, "uncertain_threshold", Rat(45, 100))
    IN  CASE classification = "FAKE" ->
                CapAt95(Confidence(70, RSub(combined_score, high_thresh), 100))
          [] classification = "LIKELY FAKE" ->
                Confidence(55, RSub(combined_score, mod_thresh), 75)
          [] classification = "UNCERTAIN" -> 50
          [] classification = "LIKELY REAL" ->
                Confidence(55, RSub(uncertain_thresh, combined_score), 75)
          [] OTHER ->
                CapAt95(Confidence(70, RSub(uncertain_thresh, combined_score), 100))

\* fa.get('artifacts_detected', {}).get('findings', [])
FrameFindings(fa) == Get(Get(fa, "artifacts_detected", EmptyDict), "findings", <<>>)

\* all_findings: every frame's findings in frame order, then the temporal ones
RECURSIVE AllFrameFindings(_, _)
AllFrameFindings(frame_analyses, i) ==
    IF i > Len(frame_analyses) THEN <<>>
    ELSE FrameFindings(frame_analyses[i]) \o AllFrameFindings(frame_analyses, i + 1)

AllFindings(frame_analyses, temporal_analysis) ==
    AllFrameFindings(frame_analyses, 1) \o Get(temporal_analysis, "temporal_findings", <<>>)

\* _compile_frame_evidence: the frames that have findings, each with its
\* findings; the empty sequence stands for the "No significant ..." text
RECURSIVE compile_frame_evidence(_, _)
compile_frame_evidence(frame_analyses, i) ==
    IF i > Len(frame_analyses) THEN <<>>
    ELSE LET fa == frame_analyses[i]
             findings == FrameFindings(fa)
         IN  (IF findings # <<>>
              THEN <<Line("Frame:", <<Get(fa, "frame_index", 0)>>)>> \o findings
              ELSE <<>>)
             \o compile_frame_evidence(frame_analyses, i + 1)

(***************************************************************************)
(* list(set(xs)): the distinct elements in the set's iteration order.  For *)
(* strings that order follows their hashes, which the interpreter salts    *)
(* with a seed drawn when the process starts: the same process always      *)
(* gives the same order, another process may give any other.  The seed     *)
(* selects a permutation of the distinct elements.                         *)
(***************************************************************************)
RECURSIVE Enumerate(_)
Enumerate(S) ==
    IF S = {} THEN <<>>
    ELSE LET x == CHOOSE y \in S : TRUE IN <<x>> \o Enumerate(S \ {x})

RemoveAt(s, i) == SubSeq(s, 1, i - 1) \o SubSeq(s, i + 1, Len(s))

RECURSIVE Permute(_, _)
Permute(s, k) ==
    IF s = <<>> THEN <<>>
    ELSE LET i == (k % Len(s)) + 1
         IN  <<s[i]>> \o Permute(RemoveAt(s, i), k \div Len(s))

ListOfSet(xs, seed) == Permute(Enumerate(Range(xs)), seed)

\* s[:n]
Prefix(s, n) == SubSeq(s, 1, PyMin(n, Len(s)))

\* (variant for C19: the first findings, not deduplicated)
FirstFindings(all_findings, seed) == Prefix(all_findings, 5)

\* list(set(all_findings))[:5]
UniqueFindings(all_findings, seed) == Prefix(ListOfSet(all_findings, seed), 5)

\* the findings whose text mentions texture, smoothing or lighting
VisualIndicators(all_findings) ==
    Len(SelectSeq(all_findings,
                  LAMBDA f : Keywords(f) \cap {"texture", "smoothing", "lighting"} # {}))

Bucket(classification) ==
    IF classification \in {"FAKE", "LIKELY FAKE"} THEN "fake"
    ELSE IF classification = "UNCERTAIN" THEN "uncertain"
    ELSE "real"

OpeningStatement(classification) ==
    CASE Bucket(classification) = "fake" ->
         "The video exhibits multiple characteristics consistent with synthetic generation or manipulation."
      [] Bucket(classification) = "uncertain" ->
         "The analysis reveals mixed signals, making confident classification difficult."
      [] OTHER ->
         "The video demonstrates characteristics consistent with authentic, non-manipulated footage."

Conclusion(classification) ==
    CASE Bucket(classification) = "fake" ->
         "The combination of visual and temporal artifacts suggests this video is synthetically generated or significantly manipulated."
      [] Bucket(classification) = "uncertain" ->
         "The evidence is inconclusive."
      [] OTHER ->
         "The video shows natural characteristics expected of authentic footage."

\* _generate_reasoning: the parts of the text, in order
generate_reasoning(classification, confidence, combined_score, all_findings, frame_analyses, temporal_analysis, seed) ==
    [classification |-> classification,
     confidence |-> confidence,
     opening |-> OpeningStatement(classification),
     headers |-> IF all_findings # <<>>
                 THEN <<"KEY EVIDENCE:", "ANALYSIS BREAKDOWN:", "CONCLUSION:">>
                 ELSE <<"ANALYSIS BREAKDOWN:", "CONCLUSION:">>,
     key_evidence |-> IF all_findings # <<>>
                      THEN UniqueFindings(all_findings, seed) ELSE <<>>,
     visual_indicators |-> VisualIndicators(all_findings),
     temporal_issues |-> Len(Get(temporal_analysis, "temporal_findings", <<>>)),
     frames_analyzed |-> Len(frame_analyses),
     combined_2f |-> Format2f(combined_score),
     conclusion |-> Conclusion(classification)]

\* (the metadata argument is passed on to _generate_reasoning and read nowhere)
synthesize_verdict(frame_analyses, temporal_analysis, r, seed) ==
    LET artifact_scores == ArtifactScores(frame_analyses)
        avg_artifact_score == AvgArtifactScore(artifact_scores)
        max_artifact_score == MaxArtifactScore(artifact_scores)
        temporal_score == Get(temporal_analysis, "temporal_score", Zero)
        combined_score == CombinedScore(avg_artifact_score, temporal_score)
        classification == Classification(combined_score, r)
        confidence == ConfidenceOf(classification, combined_score, r)
        all_findings == AllFindings(frame_analyses, temporal_analysis)
    IN  [classification |-> classification,
         confidence |-> confidence,
         reasoning |-> generate_reasoning(classification, confidence,
                                          combined_score, all_findings,
                                          frame_analyses, temporal_analysis, seed),
         evidence |->
            [frame_observations |-> compile_frame_evidence(frame_analyses, 1),
             temporal_observations |-> Get(temporal_analysis, "analysis", <<>>)],
         scores |->
            [combined |-> combined_score,
             visual_avg |-> avg_artifact_score,
             visual_max |-> max_artifact_score,
             temporal |-> temporal_score]]

(***************************************************************************)
(* Inputs.                                                                 *)
(***************************************************************************)
SeqsUpTo(S, n) == UNION {[1..k -> S] : k \in 0..n}

\* Frames for the visual rules: every breakpoint of each measurement, its
\* neighbours, and values well inside each interval.
VisualFrames ==
    [laplacian_var : {0, 99, 100, 199, 200, 500},
     grad_std : {0, 19, 20, 40},
     edge_pixels : {0, 4, 5, 12, 20, 21, 100},
     size : {100},
     gray : {<<128, 128>>}]

\* Grey images for the temporal rules; the mean absolute difference of two
\* of them takes the values 0, 1, 4, 5, 50, 51 and values well above 50.
GrayImages == {<<0, 0>>, <<4, 4>>, <<4, 6>>, <<50, 50>>, <<50, 52>>, <<120, 120>>}

TemporalFrames ==
    [laplacian_var : {500}, grad_std : {40}, edge_pixels : {10}, size : {100},
     gray : GrayImages]

\* frame_indices for n frames: range(n), every fifth frame, one too few, one
\* too many
IndexLists(n) ==
    {[i \in 1..n |-> i - 1], [i \in 1..n |-> 5 * (i - 1)],
     [i \in 1..PyMax(n - 1, 0) |-> i - 1], [i \in 1..(n + 1) |-> i - 1]}

\* Rules as loaded: the built-in table, an empty mapping, a mapping with
\* weights missing, and a mapping with other weights.
PartialRules ==
    [visual_rules |->
        [facial_smoothing |-> [weight |-> Rat(25, 100)],
         lighting_inconsistency |-> EmptyDict]]

HeavyWeightRules ==
    [visual_rules |->
        [facial_smoothing |-> [weight |-> One],
         lighting_inconsistency |-> [weight |-> One],
         boundary_artifacts |-> [weight |-> One]]]

LoadedRules == {get_default_rules, EmptyDict, PartialRules, HeavyWeightRules}

\* Rules that override the three thresholds with any values of a grid.
ThresholdGrid == {Zero, Rat(45, 100), Rat(55, 100), Rat(75, 100), One}

OverrideRules ==
    {[confidence_calculation |->
        [high_confidence_threshold |-> h,
         moderate_confidence_threshold |-> m,
         uncertain_threshold |-> u]] : h \in ThresholdGrid, m \in ThresholdGrid, u \in ThresholdGrid}

\* Hand-made analyses, as a caller other than the agent supplies them.  A
\* score is given in hundredths; -1 stands for a mapping without the key.
HandmadeFrameAnalysis(i, h) ==
    IF h < 0
    THEN [frame_index |-> 5 * (i - 1)]
    ELSE [frame_index |-> 5 * (i - 1),
          artifact_score |-> Rat(h, 100),
          artifacts_detected |->
             [findings |-> IF h >= 50 THEN <<Finding("High artifacts")>> ELSE <<>>]]

HandmadeTemporalAnalysis(h) ==
    IF h < 0
    THEN EmptyDict
    ELSE [temporal_findings |-> IF h > 0 THEN <<Finding("Temporal issue")>> ELSE <<>>,
          temporal_score |-> Rat(h, 100),
          analysis |-> <<Finding("Temporal analysis text")>>]

FrameScoreChoices == {-1, 0, 25, 75, 80, 90, 100, 150}
TemporalScoreChoices == {-1, 0, 25, 70, 75, 100}

HandmadeInputs ==
    {[frame_analyses |-> [i \in DOMAIN hs |-> HandmadeFrameAnalysis(i, hs[i])],
      temporal_analysis |-> HandmadeTemporalAnalysis(t)] :
        hs \in SeqsUpTo(FrameScoreChoices, MaxFrames), t \in TemporalScoreChoices}

\* One frame analysis and a temporal analysis with the same score, so that
\* the combined score is that score.
CombinedChoices == {0, 20, 25, 30, 45, 50, 55, 70, 75, 80, 100}

SingleScoreInputs ==
    {[frame_analyses |-> <<HandmadeFrameAnalysis(1, h)>>,
      temporal_analysis |-> HandmadeTemporalAnalysis(h)] : h \in CombinedChoices}

\* Frames of a video as the detection pipeline hands them to the agent.
PipelineFrames ==
    {[laplacian_var |-> 0, grad_std |-> 0, edge_pixels |-> 0, size |-> 100, gray |-> <<0, 0>>],
     [laplacian_var |-> 150, grad_std |-> 40, edge_pixels |-> 30, size |-> 100, gray |-> <<120, 120>>]}

\* What DeepfakeDetector.detect passes to synthesize_verdict for the frames
\* of a video: each frame's analysis under its position, and the temporal
\* analysis under list(range(len(frames))).
PipelineInputs(frames, r) ==
    [frame_analyses |-> [i \in DOMAIN frames |-> analyze_frame(frames[i], i - 1, r)],
     temporal_analysis |->
        analyze_temporal_sequence(frames, [i \in DOMAIN frames |-> i - 1]).value]

HashSeeds == 0..(NumSeeds - 1)

(***************************************************************************)
(* The calls a caller can make.                                            *)
(***************************************************************************)
Call(o, a) == [op |-> o, args |-> a]

DetectCalls ==
    {Call("_detect_visual_artifacts", [frame |-> frame]) : frame \in VisualFrames}

AnalyzeFrameCalls ==
    {Call("analyze_frame", [frame |-> frame, frame_index |-> frame_index]) :
        frame \in VisualFrames, frame_index \in {0, 5}}

TemporalCalls ==
    UNION {{Call("analyze_temporal_sequence",
                 [frames |-> frames, frame_indices |-> frame_indices]) :
                frame_indices \in IndexLists(Len(frames))} :
           frames \in SeqsUpTo(TemporalFrames, MaxFrames)}

SynthesizeCalls(inputs) == {Call("synthesize_verdict", i) : i \in inputs}

PipelineCalls(r) ==
    SynthesizeCalls({PipelineInputs(frames, r) :
                        frames \in SeqsUpTo(PipelineFrames, MaxFrames)})

AgentCalls ==
    DetectCalls \cup AnalyzeFrameCalls \cup TemporalCalls
        \cup SynthesizeCalls(HandmadeInputs)

(***************************************************************************)
(* The state machine.                                                      *)
(***************************************************************************)
NoCall == [called |-> FALSE]

\* no PluginManager has been constructed
NoManager == [constructed |-> FALSE]

\* no ParallelLLMAnalyzer has been constructed
NoAnalyzer == [constructed |-> FALSE]

\* Python's None, which yaml.safe_load returns for an empty document
None == [none |-> TRUE]

\* self.rules.get(...) on the loaded rules: None has no attribute get
RulesGet(r, value) == IF r = None THEN Raised("AttributeError") ELSE Returned(value)

NotReturned == [raised |-> "pending", value |-> EmptyDict]

\* the agent constructed with rules r in a process with hash seed `seed`,
\* and the call c made
Started(r, seed, c) ==
    /\ rules = r
    /\ hash_seed = seed
    /\ pc = "called"
    /\ op = c.op
    /\ args = c.args
    /\ result = NotReturned
    /\ earlier = NoCall
    /\ manager = NoManager
    /\ analyzer = NoAnalyzer

\* the last synthesize_verdict call that has returned
Observed ==
    IF pc = "returned" /\ op = "synthesize_verdict"
    THEN [called |-> TRUE, rules |-> rules, args |-> args, result |-> result]
    ELSE earlier

Init ==
    \E r \in LoadedRules, seed \in HashSeeds, c \in AgentCalls : Started(r, seed, c)

\* the running call returns `outcome`
Return(outcome) ==
    /\ result' = outcome
    /\ pc' = "returned"
    /\ UNCHANGED <<rules, hash_seed, op, args, earlier, manager, analyzer>>

DetectVisualArtifacts ==
    /\ pc = "called" /\ op = "_detect_visual_artifacts"
    /\ Return(RulesGet(rules, detect_visual_artifacts(args.frame, rules)))

AnalyzeFrame ==
    /\ pc = "called" /\ op = "analyze_frame"
    /\ Return(RulesGet(rules, analyze_frame(args.frame, args.frame_index, rules)))

AnalyzeTemporalSequence ==
    /\ pc = "called" /\ op = "analyze_temporal_sequence"
    /\ Return(analyze_temporal_sequence(args.frames, args.frame_indices))

SynthesizeVerdict ==
    /\ pc = "called" /\ op = "synthesize_verdict"
    /\ Return(RulesGet(rules, synthesize_verdict(args.frame_analyses,
                                                  args.temporal_analysis,
                                                  rules, hash_seed)))

Next ==
    \/ DetectVisualArtifacts
    \/ AnalyzeFrame
    \/ AnalyzeTemporalSequence
    \/ SynthesizeVerdict

Spec == Init /\ [][Next]_vars

\* the caller makes another call, one of `calls`, on the same agent
CallAgain(calls) ==
    /\ pc \in {"constructed", "returned"}
    /\ \E c \in calls :
          /\ op' = c.op
          /\ args' = c.args
    /\ pc' = "called"
    /\ result' = NotReturned
    /\ earlier' = Observed
    /\ UNCHANGED <<rules, hash_seed, manager, analyzer>>

(***************************************************************************)
(* Overridden thresholds: synthesize_verdict called again and again on an  *)
(* agent whose rules override the three thresholds.                        *)
(***************************************************************************)
InitOverride ==
    \E r \in OverrideRules, seed \in HashSeeds, c \in SynthesizeCalls(SingleScoreInputs) :
        Started(r, seed, c)

SynthesizeAgain == CallAgain(SynthesizeCalls(SingleScoreInputs))

NextOverride == SynthesizeVerdict \/ SynthesizeAgain

SpecOverride == InitOverride /\ [][NextOverride]_vars

(***************************************************************************)
(* Processes: the detection pipeline's synthesize_verdict call, in this    *)
(* process or, with the same rules file, in a process started later.       *)
(***************************************************************************)
InitProcess ==
    \E seed \in HashSeeds, c \in PipelineCalls(get_default_rules) :
        Started(get_default_rules, seed, c)

SynthesizePipeline == CallAgain(PipelineCalls(rules))

\* a new process: the interpreter draws a hash seed, the agent is
\* constructed and loads the same rules
StartProcess ==
    /\ pc = "returned"
    /\ \E seed \in HashSeeds : hash_seed' = seed
    /\ rules' = rules
    /\ pc' = "constructed"
    /\ op' = "__init__"
    /\ args' = EmptyDict
    /\ result' = Returned(EmptyDict)
    /\ earlier' = Observed
    /\ UNCHANGED <<manager, analyzer>>

NextProcess == SynthesizeVerdict \/ SynthesizePipeline \/ StartProcess

SpecProcess == InitProcess /\ [][NextProcess]_vars

(***************************************************************************)
(* The rules file: the agent is constructed from a detection_rules.yaml    *)
(* that is missing, unparseable, empty or a mapping, and then called.      *)
(***************************************************************************)
MissingFile == [exists |-> FALSE]
UnparseableFile == [exists |-> TRUE, content |-> "unparseable"]
EmptyFile == [exists |-> TRUE, content |-> "empty"]
MappingFile(r) == [exists |-> TRUE, content |-> "mapping", mapping |-> r]

RulesFiles ==
    {MissingFile, UnparseableFile, EmptyFile} \cup {MappingFile(r) : r \in LoadedRules}

\* yaml.safe_load of the file's text
yaml_safe_load(file) ==
    CASE file.content = "unparseable" -> Raised("YAMLError")
      [] file.content = "empty" -> Returned(None)
      [] OTHER -> Returned(file.mapping)

load_detection_rules(file) ==
    IF ~file.exists THEN Returned(get_default_rules) ELSE yaml_safe_load(file)

NotLoaded == [loaded |-> FALSE]

InitConfig ==
    \E seed \in HashSeeds, file \in RulesFiles :
        Started(NotLoaded, seed, Call("__init__", [rules_file |-> file]))

\* LocalAgentRunner(): the rules are loaded; the file it loaded them from
\* is remembered in `earlier`
Construct ==
    /\ pc = "called" /\ op = "__init__"
    /\ LET loaded == load_detection_rules(args.rules_file)
       IN  IF loaded.raised # ""
           THEN /\ result' = loaded
                /\ pc' = "returned"
                /\ UNCHANGED rules
           ELSE /\ result' = Returned(EmptyDict)
                /\ pc' = "constructed"
                /\ rules' = loaded.value
    /\ earlier' = [called |-> TRUE, rules_file |-> args.rules_file]
    /\ UNCHANGED <<hash_seed, op, args, manager, analyzer>>

ConfigCalls ==
    {c \in AnalyzeFrameCalls : c.args.frame_index = 5 /\ c.args.frame.edge_pixels = 12}
        \cup SynthesizeCalls(SingleScoreInputs)

\* a method of the constructed agent is called
CallMethod ==
    /\ pc \in {"constructed", "returned"} /\ result.raised = ""
    /\ \E c \in ConfigCalls :
          /\ op' = c.op
          /\ args' = c.args
    /\ pc' = "called"
    /\ result' = NotReturned
    /\ UNCHANGED <<rules, hash_seed, earlier, manager, analyzer>>

NextConfig == Construct \/ CallMethod \/ AnalyzeFrame \/ SynthesizeVerdict

SpecConfig == InitConfig /\ [][NextConfig]_vars

(***************************************************************************)
(* Frame sampling.  Indices are Python ints; step sizes are doubles.       *)
(***************************************************************************)
MaxTotalFrames == 30
MaxNumFrames == 24

\* (variant for C18: the range counted from 1)
PyRangeFromOne(n) == [i \in 1..n |-> i]

\* list(range(n))
PyRange(n) == [i \in 1..n |-> i - 1]

\* the largest L >= 0 with 2^L * b <= a, for a >= b > 0
RECURSIVE FloorLog2(_, _)
FloorLog2(a, b) == IF 2 * b <= a THEN 1 + FloorLog2(a, 2 * b) ELSE 0

\* the smallest E >= 0 with 2^E >= k, for k >= 1
RECURSIVE CeilLog2From(_, _, _)
CeilLog2From(k, E, power) == IF power >= k THEN E ELSE CeilLog2From(k, E + 1, 2 * power)

CeilLog2(k) == CeilLog2From(k, 0, 1)

RECURSIVE Pow2(_)
Pow2(n) == IF n = 0 THEN 1 ELSE 2 * Pow2(n - 1)

\* 2^s modulo m
RECURSIVE Pow2Mod(_, _)
Pow2Mod(s, m) == IF s = 0 THEN 1 % m ELSE (2 * Pow2Mod(s - 1, m)) % m

\* int(i * (a / b)) for ints i >= 0 and a >= b > 0, as IEEE-754 doubles
\* compute it: a / b is rounded to 53 significant bits (to nearest, ties to
\* even), the product with i is rounded again, and int() truncates.  The
\* result is floor(i * a / b) unless i * a / b is an integer k, the quotient
\* was rounded down, and the product lies nearer to the double below k than
\* to k: then it is k - 1.
IntOfProduct(i, a, b) ==
    LET k == (i * a) \div b
        exponent == FloorLog2(a, b)
        shift == 52 - exponent
        \* a * 2^shift = mantissa * b + rem
        rem == ((a % b) * Pow2Mod(shift, b)) % b
        odd == ((a % (2 * b)) * Pow2Mod(shift, 2 * b)) % (2 * b) >= b
        rounded_up == 2 * rem > b \/ (2 * rem = b /\ odd)
        \* the doubles just below k are 2^(below - 52) apart
        below == CeilLog2(k) - 1
        g == below - exponent - 1
    IN  IF (i * a) % b # 0 \/ k = 0 \/ rem = 0 \/ rounded_up THEN k
        ELSE IF g >= 0
             THEN (IF i * rem > b * Pow2(g) THEN k - 1 ELSE k)
             ELSE (IF i * rem * Pow2(-g) > b THEN k - 1 ELSE k)

\* VideoProcessor._uniform_sampling with self.num_frames = num_frames
uniform_sampling(total_frames, num_frames) ==
    IF total_frames <= num_frames
    THEN PyRange(total_frames)
    ELSE [n \in 1..num_frames |-> IntOfProduct(n - 1, total_frames, num_frames)]

\* sorted(s)
RECURSIVE Sorted(_)
Sorted(s) ==
    IF s = <<>> THEN <<>>
    ELSE LET lowest == CHOOSE i \in DOMAIN s : \A j \in DOMAIN s : s[i] <= s[j]
         IN  <<s[lowest]>> \o Sorted(RemoveAt(s, lowest))

\* sorted(list(set(s)))
SortedSet(s) == Sorted(Enumerate(Range(s)))

\* the even-stride subsample [indices[int(i * step)] for i in range(num_frames)]
\* taken when there are more than num_frames indices
TrimToCount(indices, num_frames) ==
    IF Len(indices) > num_frames
    THEN [n \in 1..num_frames |->
             indices[IntOfProduct(n - 1, Len(indices), num_frames) + 1]]
    ELSE indices

\* EmotionBasedSampler: the seven transition points, in percent
transition_points == <<5, 15, 35, 50, 65, 85, 95>>

\* int(total_frames * point): the double product truncates to this quotient
\* for every total_frames below 180
CenterFrame(total_frames, percent) == (total_frames * percent) \div 100

\* int((j - frames_at_point / 2) * spread): halves are exact in doubles and
\* int() truncates toward zero
SpreadOffset(j, frames_at_point, spread) ==
    PyInt(Rat((2 * j - frames_at_point) * spread, 2))

\* the indices appended for the i-th transition point (i from 0)
FramesAtPoint(i, total_frames, num_frames) ==
    LET base_frames_per_point == num_frames \div Len(transition_points)
        remaining_frames == num_frames % Len(transition_points)
        center_frame == CenterFrame(total_frames, transition_points[i + 1])
        frames_at_point ==
            IF i < remaining_frames THEN base_frames_per_point + 1
            ELSE base_frames_per_point
        spread == PyMin(total_frames \div 20, 10)
    IN  IF frames_at_point = 1 THEN <<center_frame>>
        ELSE [n \in 1..frames_at_point |->
                 PyMax(0, PyMin(total_frames - 1,
                                center_frame
                                    + SpreadOffset(n - 1, frames_at_point, spread)))]

RECURSIVE TransitionFrames(_, _, _)
TransitionFrames(i, total_frames, num_frames) ==
    IF i >= Len(transition_points) THEN <<>>
    ELSE FramesAtPoint(i, total_frames, num_frames)
             \o TransitionFrames(i + 1, total_frames, num_frames)

\* indices.insert(pos, x), pos counted from 0
InsertAt(indices, pos, x) ==
    SubSeq(indices, 1, pos) \o <<x>> \o SubSeq(indices, pos + 1, Len(indices))

\* max(gaps): the largest gap, the last one among equals; as a position from 1
LargestGap(indices) ==
    LET gap(i) == indices[i + 1] - indices[i]
        gaps == 1..(Len(indices) - 1)
    IN  CHOOSE i \in gaps :
            \A j \in gaps : gap(j) < gap(i) \/ (gap(j) = gap(i) /\ j <= i)

\* the midpoint inserted into the largest gap
NewFrame(indices, gap_idx) == (indices[gap_idx] + indices[gap_idx + 1]) \div 2

\* while len(indices) < num_frames: insert the midpoint of the largest gap,
\* or stop when there is no gap
RECURSIVE FillLargestGaps(_, _)
FillLargestGaps(indices, num_frames) ==
    IF Len(indices) >= num_frames \/ Len(indices) < 2 THEN indices
    ELSE LET gap_idx == LargestGap(indices)
         IN  FillLargestGaps(InsertAt(indices, gap_idx, NewFrame(indices, gap_idx)),
                             num_frames)

emotion_sample_frames(total_frames, num_frames) ==
    IF total_frames <= num_frames THEN PyRange(total_frames)
    ELSE LET indices == SortedSet(TransitionFrames(0, total_frames, num_frames))
             trimmed == TrimToCount(indices, num_frames)
             filled == FillLargestGaps(trimmed, num_frames)
         IN  Sorted(Prefix(filled, num_frames))

\* SceneBasedSampler: metadata.get(key, default) if metadata else default;
\* None and the empty dict are both false
MetadataGet(metadata, key, default) ==
    IF metadata = None \/ metadata = EmptyDict THEN default
    ELSE Get(metadata, key, default)

\* min(5, int(scene_length * 0.05)) with scene_length = total_frames /
\* scene_count: the double product truncates to this quotient for every
\* total_frames below 400
BoundaryOffset(total_frames, scene_count) ==
    PyMin(5, total_frames \div (20 * scene_count))

\* the start and end boundary samples of the scenes from scene_idx on
RECURSIVE SceneBoundaries(_, _, _, _, _)
SceneBoundaries(scene_idx, scene_count, total_frames, num_frames, indices) ==
    IF scene_idx >= scene_count THEN indices
    ELSE LET scene_start == IntOfProduct(scene_idx, total_frames, scene_count)
             scene_end == IntOfProduct(scene_idx + 1, total_frames, scene_count) - 1
             start_offset == BoundaryOffset(total_frames, scene_count)
             end_offset == BoundaryOffset(total_frames, scene_count)
             with_start ==
                 Append(indices, PyMin(scene_start + start_offset, total_frames - 1))
             with_end ==
                 IF Len(with_start) < num_frames
                 THEN Append(with_start,
                             PyMax(0, PyMin(scene_end - end_offset, total_frames - 1)))
                 ELSE with_start
         IN  SceneBoundaries(scene_idx + 1, scene_count, total_frames, num_frames,
                             with_end)

\* the scene midpoints added while fewer than num_frames indices are there
RECURSIVE SceneMiddles(_, _, _, _, _)
SceneMiddles(scene_idx, scene_count, total_frames, num_frames, indices) ==
    IF scene_idx >= scene_count \/ Len(indices) >= num_frames THEN indices
    ELSE LET scene_start == IntOfProduct(scene_idx, total_frames, scene_count)
             scene_end == IntOfProduct(scene_idx + 1, total_frames, scene_count)
             scene_middle == (scene_start + scene_end) \div 2
         IN  SceneMiddles(scene_idx + 1, scene_count, total_frames, num_frames,
                          IF scene_middle \in Range(indices) THEN indices
                          ELSE Append(indices, scene_middle))

\* the uniformly spaced indices not yet in `indices`, from the i-th on
RECURSIVE UniformIndices(_, _, _, _)
UniformIndices(i, total_frames, num_frames, indices) ==
    IF i >= num_frames THEN <<>>
    ELSE LET frame_idx == IntOfProduct(i, total_frames, num_frames)
         IN  (IF frame_idx \in Range(indices) THEN <<>> ELSE <<frame_idx>>)
                 \o UniformIndices(i + 1, total_frames, num_frames, indices)

\* (variant for C16: the uniform fallback left out)
UniformFillSkipped(total_frames, num_frames, indices) == indices

UniformFill(total_frames, num_frames, indices) ==
    IF Len(indices) < num_frames
    THEN indices \o Prefix(UniformIndices(0, total_frames, num_frames, indices),
                           num_frames - Len(indices))
    ELSE indices

scene_sample_frames(total_frames, num_frames, metadata) ==
    IF total_frames <= num_frames THEN Returned(PyRange(total_frames))
    ELSE LET fps == MetadataGet(metadata, "fps", RInt(30))
         IN  IF fps = Zero THEN Raised("ZeroDivisionError")
             ELSE
             LET duration ==
                     MetadataGet(metadata, "duration",
                                 Rat(total_frames * fps.d, fps.n))
                 estimated_scene_count == PyMax(2, PyInt(RDivInt(duration, 3)))
                 max_scenes == num_frames \div 2
                 scene_count == PyMin(estimated_scene_count, max_scenes)
             IN  IF scene_count = 0 THEN Raised("ZeroDivisionError")
                 ELSE
                 LET boundaries ==
                         SceneBoundaries(0, scene_count, total_frames, num_frames, <<>>)
                     middles ==
                         IF Len(boundaries) < num_frames
                         THEN SceneMiddles(0, scene_count, total_frames, num_frames,
                                           boundaries)
                         ELSE boundaries
                     filled == UniformFill(total_frames, num_frames, middles)
                     indices == SortedSet(filled)
                 IN  Returned(Sorted(Prefix(TrimToCount(indices, num_frames),
                                            num_frames)))

\* The sampler calls: every video length and frame budget up to the bounds,
\* and the 100-frame video of the tests.
\* list(range(start, stop, step)) for step >= 1
RangeStep(start, stop, step) ==
    LET count == IF stop > start THEN (stop - start + step - 1) \div step ELSE 0
    IN  [i \in 1..count |-> start + (i - 1) * step]

\* VideoProcessor._adaptive_sampling: two fifths of the frames from the first
\* fifth of the video, one fifth from the middle, the rest from the last
\* fifth.  int(total_frames * 0.2), int(total_frames * 0.8),
\* int(num_frames * 0.4) and int(num_frames * 0.2) equal the exact floors
\* for every count below 3000.  A segment count of zero divides by zero.
adaptive_sampling(total_frames, num_frames) ==
    LET first_20_percent == total_frames \div 5
        last_20_percent == (4 * total_frames) \div 5
        num_first == (2 * num_frames) \div 5
        num_middle == num_frames \div 5
        first == Prefix(RangeStep(0, first_20_percent,
                     PyMax(1, first_20_percent \div num_first)), num_first)
        middle == Prefix(RangeStep(first_20_percent, last_20_percent,
                     PyMax(1, (last_20_percent - first_20_percent) \div num_middle)),
                     num_middle)
        num_last == num_frames - Len(first \o middle)
        last == Prefix(RangeStep(last_20_percent, total_frames,
                     PyMax(1, (total_frames - last_20_percent) \div num_last)),
                     num_last)
    IN  IF num_first = 0 \/ num_middle = 0 \/ num_last = 0
        THEN Raised("ZeroDivisionError")
        ELSE Returned(Prefix(SortedSet(first \o middle \o last), num_frames))

FrameCounts ==
    {[total_frames |-> t, num_frames |-> n] :
        t \in 0..MaxTotalFrames, n \in 1..MaxNumFrames}
        \cup {[total_frames |-> 100, num_frames |-> 5]}

\* metadata: absent, or a dict with fps and possibly duration
SamplerMetadata ==
    {None,
     [fps |-> RInt(30)],
     [fps |-> RInt(1)],
     [fps |-> RInt(30), duration |-> Zero],
     [fps |-> RInt(30), duration |-> RInt(10)],
     [fps |-> Zero],
     [fps |-> Zero, duration |-> RInt(10)]}

UniformCalls == {Call("_uniform_sampling", c) : c \in FrameCounts}

EmotionCalls ==
    {Call("EmotionBasedSampler.sample_frames",
          [total_frames |-> c.total_frames, num_frames |-> c.num_frames,
           metadata |-> m]) : c \in FrameCounts, m \in {None, [fps |-> RInt(30)]}}

SceneCalls ==
    {Call("SceneBasedSampler.sample_frames",
          [total_frames |-> c.total_frames, num_frames |-> c.num_frames,
           metadata |-> m]) : c \in FrameCounts, m \in SamplerMetadata}

AdaptiveCalls ==
    {Call("_adaptive_sampling", c) :
        c \in FrameCounts \cup {[total_frames |-> 100, num_frames |-> 10]}}

SamplerCalls == UniformCalls \cup EmotionCalls \cup SceneCalls \cup AdaptiveCalls

InitSampler == \E c \in SamplerCalls : Started(NotLoaded, 0, c)

UniformSampling ==
    /\ pc = "called" /\ op = "_uniform_sampling"
    /\ Return(Returned(uniform_sampling(args.total_frames, args.num_frames)))

EmotionSampleFrames ==
    /\ pc = "called" /\ op = "EmotionBasedSampler.sample_frames"
    /\ Return(Returned(emotion_sample_frames(args.total_frames, args.num_frames)))

SceneSampleFrames ==
    /\ pc = "called" /\ op = "SceneBasedSampler.sample_frames"
    /\ Return(scene_sample_frames(args.total_frames, args.num_frames, args.metadata))

AdaptiveSampling ==
    /\ pc = "called" /\ op = "_adaptive_sampling"
    /\ Return(adaptive_sampling(args.total_frames, args.num_frames))

NextSampler ==
    \/ UniformSampling
    \/ EmotionSampleFrames
    \/ SceneSampleFrames
    \/ AdaptiveSampling

SpecSampler == InitSampler /\ [][NextSampler]_vars

(***************************************************************************)
(* The reasoning text: _generate_reasoning called on its own, as the       *)
(* tests do, with any label and with lists of up to nine findings.         *)
(***************************************************************************)
Labels == {"FAKE", "LIKELY FAKE", "UNCERTAIN", "LIKELY REAL", "REAL"}

KnownFindings ==
    <<LowTextureFinding, UniformLightingFinding, LowEdgeFinding,
      ModerateTextureFinding, HighEdgeFinding,
      LargeMotionFinding(0, 1), LowMotionFinding(1, 2)>>

\* the first k known findings, followed by the first j once more
FindingLists ==
    {SubSeq(KnownFindings, 1, k) \o SubSeq(KnownFindings, 1, j) :
        k \in 0..Len(KnownFindings), j \in 0..2}

ReasoningCalls ==
    {Call("_generate_reasoning",
          [classification |-> label, confidence |-> confidence,
           combined_score |-> Rat(80, 100), all_findings |-> all_findings,
           frame_analyses |-> frame_analyses,
           temporal_analysis |-> HandmadeTemporalAnalysis(70)]) :
        label \in Labels, confidence \in {50, 85}, all_findings \in FindingLists,
        frame_analyses \in {<<>>, <<HandmadeFrameAnalysis(1, 90)>>}}

InitReasoning ==
    \E seed \in HashSeeds, c \in ReasoningCalls : Started(EmptyDict, seed, c)

GenerateReasoning ==
    /\ pc = "called" /\ op = "_generate_reasoning"
    /\ Return(Returned(generate_reasoning(args.classification, args.confidence,
                                          args.combined_score, args.all_findings,
                                          args.frame_analyses, args.temporal_analysis,
                                          hash_seed)))

NextReasoning == GenerateReasoning

SpecReasoning == InitReasoning /\ [][NextReasoning]_vars

(***************************************************************************)
(* The detection pipeline: DeepfakeDetector.detect on a video, with the    *)
(* uniform strategy and the local agent, step by step.                     *)
(***************************************************************************)
\* the videos: total_frames frames, all alike ("static"), alternating
\* between two pictures ("cuts"), sharp pictures changing slowly
\* ("natural"), or smooth crowded pictures flickering ("busy")
Videos ==
    {[total_frames |-> t, kind |-> kind] :
        t \in 0..MaxTotalFrames, kind \in {"static", "cuts", "natural", "busy"}}

\* the k-th frame of the video, k from 0
VideoFrame(video, k) ==
    CASE video.kind = "natural" ->
         [laplacian_var |-> 500, grad_std |-> 40, edge_pixels |-> 12, size |-> 100,
          gray |-> <<(7 * k) % 90, (7 * k) % 90>>]
      [] video.kind = "busy" ->
         [laplacian_var |-> 99, grad_std |-> 19, edge_pixels |-> 21, size |-> 100,
          gray |-> IF k % 2 = 0 THEN <<0, 0>> ELSE <<120, 120>>]
      [] OTHER ->
         IF video.kind = "static" \/ k % 2 = 0
         THEN CHOOSE f \in PipelineFrames : f.laplacian_var = 0
         ELSE CHOOSE f \in PipelineFrames : f.laplacian_var # 0

\* VideoProcessor.extract_frames('uniform'): the frames at the sampled
\* indices, every read succeeding; the indices themselves are not returned
extract_frames(video, num_frames) ==
    IF video.total_frames = 0 THEN Raised("ValueError")
    ELSE LET frame_indices == uniform_sampling(video.total_frames, num_frames)
         IN  Returned([n \in DOMAIN frame_indices |->
                          VideoFrame(video, frame_indices[n])])

\* DeepfakeDetector._select_key_frames with max_frames = 5; the step
\* (total_frames - 2) / 3 is multiplied by 0, 1 or 2 only, which is exact
select_key_frames(total_frames) ==
    IF total_frames <= 5 THEN PyRange(total_frames)
    ELSE SortedSet(<<0, total_frames - 1>>
                       \o [i \in 1..3 |-> 1 + ((i - 1) * (total_frames - 2)) \div 3])

\* DeepfakeDetector._analyze_frames
analyze_frames(frames, r) ==
    LET indices_to_analyze == select_key_frames(Len(frames))
    IN  [n \in DOMAIN indices_to_analyze |->
            analyze_frame(frames[indices_to_analyze[n] + 1], indices_to_analyze[n], r)]

DetectionCalls ==
    {Call("detect", [video |-> video, num_frames |-> n]) :
        video \in Videos, n \in 1..MaxNumFrames}

InitDetection ==
    \E seed \in HashSeeds, c \in DetectionCalls : Started(get_default_rules, seed, c)

\* detect moves on to `step` with the locals it has so far
Step(step, locals) ==
    /\ pc' = step
    /\ result' = [raised |-> "pending", value |-> locals]
    /\ UNCHANGED <<rules, hash_seed, op, args, earlier, manager, analyzer>>

\* Step 1/4; a failure is re-raised as RuntimeError
ProcessVideo ==
    /\ pc = "called" /\ op = "detect"
    /\ LET frames == extract_frames(args.video, args.num_frames)
       IN  IF frames.raised # "" THEN Return(Raised("RuntimeError"))
           ELSE Step("frames_extracted", [frames |-> frames.value])

\* Step 2/4
AnalyzeFrames ==
    /\ pc = "frames_extracted"
    /\ Step("frames_analysed",
            [frames |-> result.value.frames,
             frame_analyses |-> analyze_frames(result.value.frames, rules)])

\* Step 3/4
AnalyzeTemporal ==
    /\ pc = "frames_analysed"
    /\ Step("temporal_analysed",
            [frames |-> result.value.frames,
             frame_analyses |-> result.value.frame_analyses,
             temporal_analysis |->
                 analyze_temporal_sequence(result.value.frames,
                                           PyRange(Len(result.value.frames))).value])

\* Step 4/4 and the compiled results
SynthesizeDetection ==
    /\ pc = "temporal_analysed"
    /\ Return(Returned(
           [verdict |-> synthesize_verdict(result.value.frame_analyses,
                                           result.value.temporal_analysis,
                                           rules, hash_seed),
            num_frames_analyzed |-> Len(result.value.frames),
            sampling_strategy |-> "uniform"]))

NextDetection == ProcessVideo \/ AnalyzeFrames \/ AnalyzeTemporal \/ SynthesizeDetection

SpecDetection == InitDetection /\ [][NextDetection]_vars

(***************************************************************************)
(* The plugin manager.  A plugin is an object with some of the attributes  *)
(* name, sample_frames, pre_analysis_hook and post_analysis_hook; `id`     *)
(* tells two objects apart.  A hook attribute holds what calling it does.  *)
(* A Python dict keeps its keys in insertion order, and assigning to a key *)
(* that is present keeps the key's place.                                  *)
(***************************************************************************)
MaxPluginCalls == 3
MaxHookCalls == 4

\* k in d
DictHas(d, k) == \E i \in DOMAIN d : d[i].key = k

\* d.get(k)
DictGet(d, k) ==
    IF DictHas(d, k) THEN d[CHOOSE i \in DOMAIN d : d[i].key = k].value ELSE None

\* d[k] = v
DictSet(d, k, v) ==
    IF DictHas(d, k)
    THEN [i \in DOMAIN d |-> IF d[i].key = k THEN [key |-> k, value |-> v] ELSE d[i]]
    ELSE Append(d, [key |-> k, value |-> v])

\* hasattr(plugin, attribute)
hasattr(plugin, attribute) == attribute \in DOMAIN plugin

\* PluginManager.__init__
NewManager == [frame_samplers |-> <<>>, analysis_hooks |-> <<>>]

\* (variant for C25: a registered name is replaced whatever overwrite says)
NameTakenNever(registry, plugin, overwrite) == FALSE

\* plugin.name in registry and not overwrite
NameTaken(registry, plugin, overwrite) == DictHas(registry, plugin.name) /\ ~overwrite

\* PluginManager.register_frame_sampler: the outcome and the manager after it
register_frame_sampler(m, plugin, overwrite) ==
    IF ~hasattr(plugin, "name") \/ ~hasattr(plugin, "sample_frames")
    THEN [outcome |-> Raised("ValueError"), manager |-> m]
    ELSE IF NameTaken(m.frame_samplers, plugin, overwrite)
    THEN [outcome |-> Raised("ValueError"), manager |-> m]
    ELSE [outcome |-> Returned(None),
          manager |-> [m EXCEPT !.frame_samplers = DictSet(@, plugin.name, plugin)]]

\* PluginManager.register_analysis_hook
register_analysis_hook(m, plugin, overwrite) ==
    IF ~hasattr(plugin, "name")
    THEN [outcome |-> Raised("ValueError"), manager |-> m]
    ELSE IF NameTaken(m.analysis_hooks, plugin, overwrite)
    THEN [outcome |-> Raised("ValueError"), manager |-> m]
    ELSE [outcome |-> Returned(None),
          manager |-> [m EXCEPT !.analysis_hooks = DictSet(@, plugin.name, plugin)]]

\* PluginManager.get_frame_sampler
get_frame_sampler(m, name) == DictGet(m.frame_samplers, name)

\* (variant for C26: the loop ends at the first hook that raises)
RECURSIVE HookLoopStopping(_, _, _)
HookLoopStopping(hooks, method, invoked) ==
    IF hooks = <<>> THEN [raised |-> "", value |-> None, invoked |-> invoked]
    ELSE LET plugin == Head(hooks).value
         IN  IF ~hasattr(plugin, method)
             THEN HookLoopStopping(Tail(hooks), method, invoked)
             ELSE IF plugin[method] = "returns"
             THEN HookLoopStopping(Tail(hooks), method, Append(invoked, plugin.id))
             ELSE [raised |-> "", value |-> None,
                   invoked |-> Append(invoked, plugin.id)]

\* the loop over self.analysis_hooks.items(): a hook that has the method is
\* called; `except Exception` catches what it raises unless that is not an
\* Exception (SystemExit, KeyboardInterrupt), which leaves the loop and the
\* method.  `invoked` lists the plugins whose method was called.
RECURSIVE HookLoop(_, _, _)
HookLoop(hooks, method, invoked) ==
    IF hooks = <<>> THEN [raised |-> "", value |-> None, invoked |-> invoked]
    ELSE LET plugin == Head(hooks).value
         IN  IF ~hasattr(plugin, method)
             THEN HookLoop(Tail(hooks), method, invoked)
             ELSE IF plugin[method] = "raises SystemExit"
             THEN [raised |-> "SystemExit", value |-> EmptyDict,
                   invoked |-> Append(invoked, plugin.id)]
             ELSE HookLoop(Tail(hooks), method, Append(invoked, plugin.id))

\* PluginManager.execute_pre_analysis_hooks
execute_pre_analysis_hooks(m) == HookLoop(m.analysis_hooks, "pre_analysis_hook", <<>>)

\* PluginManager.execute_post_analysis_hooks
execute_post_analysis_hooks(m) == HookLoop(m.analysis_hooks, "post_analysis_hook", <<>>)

\* sampler plugins: two named "a", one named "b", one without a name and
\* one without sample_frames
SamplerPlugins ==
    {[id |-> 1, name |-> "a", sample_frames |-> TRUE],
     [id |-> 2, name |-> "a", sample_frames |-> TRUE],
     [id |-> 3, name |-> "b", sample_frames |-> TRUE],
     [id |-> 4, sample_frames |-> TRUE],
     [id |-> 5, name |-> "a"]}

\* hook plugins: with both hooks, with a failing pre-analysis hook, with a
\* post-analysis hook only, with a hook that exits, and without a name
HookPlugins ==
    {[id |-> 1, name |-> "a", pre_analysis_hook |-> "returns",
      post_analysis_hook |-> "returns"],
     [id |-> 2, name |-> "b", pre_analysis_hook |-> "raises RuntimeError",
      post_analysis_hook |-> "returns"],
     [id |-> 3, name |-> "a", post_analysis_hook |-> "raises RuntimeError"],
     [id |-> 4, name |-> "a", pre_analysis_hook |-> "returns"],
     [id |-> 5, name |-> "c", pre_analysis_hook |-> "raises SystemExit"],
     [id |-> 6, pre_analysis_hook |-> "returns"]}

SamplerRegistryCalls ==
    {Call("register_frame_sampler", [plugin |-> plugin, overwrite |-> o]) :
        plugin \in SamplerPlugins, o \in BOOLEAN}
        \cup {Call("get_frame_sampler", [name |-> n]) : n \in {"a", "b", "c"}}

HookCalls ==
    {Call("register_analysis_hook", [plugin |-> plugin, overwrite |-> o]) :
        plugin \in HookPlugins, o \in BOOLEAN}
        \cup {Call("execute_pre_analysis_hooks", EmptyDict),
              Call("execute_post_analysis_hooks", EmptyDict)}

\* a PluginManager has been constructed; `earlier` lists the calls made on
\* it that have returned or raised, oldest first
InitManager ==
    /\ rules = NotLoaded
    /\ hash_seed = 0
    /\ pc = "constructed"
    /\ op = "__init__"
    /\ args = EmptyDict
    /\ result = Returned(None)
    /\ earlier = <<>>
    /\ manager = NewManager
    /\ analyzer = NoAnalyzer

\* the calls finished so far, the one that has just returned included
CallsMade ==
    IF pc = "returned"
    THEN Append(earlier, [op |-> op, args |-> args, result |-> result])
    ELSE earlier

\* the caller makes the next call, one of `calls`, on the manager
CallManager(calls, limit) ==
    /\ pc \in {"constructed", "returned"}
    /\ Len(CallsMade) < limit
    /\ \E c \in calls :
          /\ op' = c.op
          /\ args' = c.args
    /\ pc' = "called"
    /\ result' = NotReturned
    /\ earlier' = CallsMade
    /\ UNCHANGED <<rules, hash_seed, manager, analyzer>>

\* the running call ends with `outcome` and leaves the manager as `m`
ReturnManager(outcome, m) ==
    /\ result' = outcome
    /\ manager' = m
    /\ pc' = "returned"
    /\ UNCHANGED <<rules, hash_seed, op, args, earlier, analyzer>>

RegisterFrameSampler ==
    /\ pc = "called" /\ op = "register_frame_sampler"
    /\ LET done == register_frame_sampler(manager, args.plugin, args.overwrite)
       IN  ReturnManager(done.outcome, done.manager)

GetFrameSampler ==
    /\ pc = "called" /\ op = "get_frame_sampler"
    /\ ReturnManager(Returned(get_frame_sampler(manager, args.name)), manager)

RegisterAnalysisHook ==
    /\ pc = "called" /\ op = "register_analysis_hook"
    /\ LET done == register_analysis_hook(manager, args.plugin, args.overwrite)
       IN  ReturnManager(done.outcome, done.manager)

ExecutePreAnalysisHooks ==
    /\ pc = "called" /\ op = "execute_pre_analysis_hooks"
    /\ ReturnManager(execute_pre_analysis_hooks(manager), manager)

ExecutePostAnalysisHooks ==
    /\ pc = "called" /\ op = "execute_post_analysis_hooks"
    /\ ReturnManager(execute_post_analysis_hooks(manager), manager)

CallSamplerRegistry == CallManager(SamplerRegistryCalls, MaxPluginCalls)

CallHooks == CallManager(HookCalls, MaxHookCalls)

NextSamplerRegistry == CallSamplerRegistry \/ RegisterFrameSampler \/ GetFrameSampler

SpecSamplerRegistry == InitManager /\ [][NextSamplerRegistry]_vars

NextHooks ==
    \/ CallHooks
    \/ RegisterAnalysisHook
    \/ ExecutePreAnalysisHooks
    \/ ExecutePostAnalysisHooks

SpecHooks == InitManager /\ [][NextHooks]_vars

(***************************************************************************)
(* Batch detection.  What detect does with one video is drawn for every    *)
(* call: it returns a result, raises ValueError (the file is not a valid   *)
(* video) or raises RuntimeError (a step failed).  Saving a result, done   *)
(* when an output directory is given, may fail with OSError.               *)
(***************************************************************************)
MaxVideos == 3

VideoPaths == {"/video1.mp4", "/video2.mp4"}

\* the lists of at most MaxVideos paths
VideoPathLists == UNION {[1..n -> VideoPaths] : n \in 0..MaxVideos}

\* what one call of detect may do
DetectOutcomes ==
    {Returned([classification |-> "LIKELY REAL", confidence |-> 72]),
     Raised("ValueError"),
     Raised("RuntimeError")}

\* what OutputFormatter.save_json may do
SaveOutcomes == {Returned(None), Raised("OSError")}

\* the entry of a video that failed
ErrorEntry(e) == [error |-> e, classification |-> "ERROR", confidence |-> 0]

\* (variant for C24: a failed video gets no entry)
FailureSkipped(results, video_path, e) == results

\* the except branch: results[video_path] = {'error': ..., ...}
FailureRecorded(results, video_path, e) == DictSet(results, video_path, ErrorEntry(e))

\* one pass of the loop body for video_path, where detect does `detected`
\* and, if it comes to that, save_json does `saved`
batch_detect_video(results, video_path, output_dir, detected, saved) ==
    IF detected.raised # ""
    THEN FailureRecorded(results, video_path, detected.raised)
    ELSE LET stored == DictSet(results, video_path, detected.value)
         IN  IF output_dir # None /\ saved.raised # ""
             THEN FailureRecorded(stored, video_path, saved.raised)
             ELSE stored

BatchCalls ==
    {Call("batch_detect", [video_paths |-> paths, output_dir |-> dir]) :
        paths \in VideoPathLists, dir \in {None, [path |-> "results"]}}

InitBatch == \E c \in BatchCalls : Started(get_default_rules, 0, c)

\* results = {}
BatchDetectStart ==
    /\ pc = "called" /\ op = "batch_detect"
    /\ Step("batch_loop", [results |-> <<>>, detected |-> <<>>, saved |-> <<>>])

\* the loop body for the next video; `detected` and `saved` keep what
\* detect and save_json did for each video so far
BatchDetectVideo ==
    /\ pc = "batch_loop"
    /\ LET locals == result.value
           i == Len(locals.detected) + 1
       IN  /\ i <= Len(args.video_paths)
           /\ \E detected \in DetectOutcomes, saved \in SaveOutcomes :
                 /\ (detected.raised # "" \/ args.output_dir = None)
                        => saved = Returned(None)
                 /\ Step("batch_loop",
                         [results |-> batch_detect_video(locals.results,
                                          args.video_paths[i], args.output_dir,
                                          detected, saved),
                          detected |-> Append(locals.detected, detected),
                          saved |-> Append(locals.saved, saved)])

\* return results
BatchDetectReturn ==
    /\ pc = "batch_loop"
    /\ Len(result.value.detected) = Len(args.video_paths)
    /\ result' = [raised |-> "", value |-> result.value.results,
                  detected |-> result.value.detected, saved |-> result.value.saved]
    /\ pc' = "returned"
    /\ UNCHANGED <<rules, hash_seed, op, args, earlier, manager, analyzer>>

NextBatch == BatchDetectStart \/ BatchDetectVideo \/ BatchDetectReturn

SpecBatch == InitBatch /\ [][NextBatch]_vars

(***************************************************************************)
(* The parallel analyzer.  analyze_frames_parallel submits one task per    *)
(* frame to a thread pool of max_concurrent_requests workers and collects  *)
(* the futures as they complete.  A future is queued, then run by a worker *)
(* that acquires the analyzer's semaphore ("acquiring"), sleeps for the    *)
(* rate limit or the backoff ("sleeping"), calls analysis_function         *)
(* ("analysing") and, when the call returns or the last attempt raises,    *)
(* releases the semaphore and completes the future ("done").  What         *)
(* analysis_function does is drawn at every call.  A frame is named by its *)
(* place in the list.                                                      *)
(***************************************************************************)
MaxAnalysed == 2
MaxConcurrent == 2
MaxRetry == 1

\* the frame indices a caller passes
FrameIndexValues == {3, 7}

\* (variant for C21: the analyzer lets one more request through)
NewAnalyzerOneMore(max_concurrent_requests, retry_attempts) ==
    [max_concurrent_requests |-> max_concurrent_requests + 1,
     retry_attempts |-> retry_attempts,
     _semaphore |-> max_concurrent_requests + 1,
     futures |-> <<>>]

\* ParallelLLMAnalyzer.__init__
NewAnalyzer(max_concurrent_requests, retry_attempts) ==
    [max_concurrent_requests |-> max_concurrent_requests,
     retry_attempts |-> retry_attempts,
     _semaphore |-> max_concurrent_requests,
     futures |-> <<>>]

\* executor.submit(self._analyze_single_frame_with_semaphore, frame, idx, ...)
Submitted(frame, idx) ==
    [frame |-> frame, frame_index |-> idx, state |-> "queued", attempt |-> 0,
     calls |-> 0, outcome |-> NotReturned]

\* list(zip(frames, frame_indices)), frame_indices defaulting to
\* list(range(len(frames)))
ZipFrames(frames, frame_indices) ==
    LET indices == IF frame_indices = None THEN PyRange(Len(frames))
                   ELSE frame_indices.list
    IN  [k \in 1..PyMin(Len(frames), Len(indices)) |-> Submitted(frames[k], indices[k])]

\* the futures a worker thread is running
Running(futures) ==
    {k \in DOMAIN futures : futures[k].state \in {"acquiring", "sleeping", "analysing"}}

\* (variant for C28: a permit is given back only when the block returns)
ReleasedOnReturn(raised) == IF raised THEN 0 ELSE 1

\* the permits `with self._semaphore` gives back when the block is left, by
\* a return or by an exception
ReleasedOnExit(raised) == 1

\* not (attempt < self.retry_attempts)
LastAttempt(attempt, retry_attempts) == attempt >= retry_attempts

\* what analysis_function returns for a frame
Analysis(frame, idx) == [frame |-> frame, frame_index |-> idx]

\* {'error': str(e), 'frame_index': idx}
ErrorMarker(e, idx) == [error |-> e, frame_index |-> idx]

\* [results_dict[i] for i in sorted(results_dict.keys())]
ByIndex(results_dict) ==
    LET keys == {results_dict[i].key : i \in DOMAIN results_dict}
        place(key) == Cardinality({other \in keys : other < key}) + 1
    IN  [i \in 1..Cardinality(keys) |->
            DictGet(results_dict, CHOOSE key \in keys : place(key) = i)]

\* the frames analysed: each is its own place in the list
FrameLists == {[k \in 1..n |-> k] : n \in 0..MaxAnalysed}

\* the frame_indices lists a caller may pass
FrameIndexLists == UNION {[1..n -> FrameIndexValues] : n \in 0..MaxAnalysed}

AnalyzerCalls ==
    {Call("analyze_frames_parallel",
          [frames |-> frames, frame_indices |-> indices,
           max_concurrent_requests |-> m, retry_attempts |-> r]) :
        frames \in FrameLists,
        indices \in {None} \cup {[list |-> l] : l \in FrameIndexLists},
        m \in 1..MaxConcurrent, r \in 0..MaxRetry}

\* an analyzer is constructed with the settings in the call c and
\* analyze_frames_parallel is called on it
StartedAnalyzer(c) ==
        /\ c.args.frame_indices # None =>
                Len(c.args.frame_indices.list) = Len(c.args.frames)
        /\ rules = NotLoaded
        /\ hash_seed = 0
        /\ pc = "called"
        /\ op = c.op
        /\ args = c.args
        /\ result = NotReturned
        /\ earlier = NoCall
        /\ manager = NoManager
        /\ analyzer = NewAnalyzer(c.args.max_concurrent_requests, c.args.retry_attempts)

InitAnalyzer == \E c \in AnalyzerCalls : StartedAnalyzer(c)

\* the calls that leave frame_indices to its default
InitAnalyzerDefault ==
    \E c \in AnalyzerCalls : c.args.frame_indices = None /\ StartedAnalyzer(c)

\* one future changes
FutureStep(k, future, permits) ==
    /\ analyzer' = [analyzer EXCEPT !.futures[k] = future,
                                    !._semaphore = @ + permits]
    /\ UNCHANGED <<rules, hash_seed, pc, op, args, result, earlier, manager>>

\* results_dict = {}; every task is submitted; failed_count = 0
SubmitTasks ==
    /\ pc = "called" /\ op = "analyze_frames_parallel"
    /\ analyzer' = [analyzer EXCEPT !.futures = ZipFrames(args.frames, args.frame_indices)]
    /\ pc' = "collecting"
    /\ result' = [raised |-> "pending",
                  value |-> [results_dict |-> <<>>, failed_count |-> 0, yielded |-> {}]]
    /\ UNCHANGED <<rules, hash_seed, op, args, earlier, manager>>

\* a free worker thread of the pool takes the oldest queued task
WorkerTakesTask(k) ==
    /\ analyzer.futures[k].state = "queued"
    /\ \A j \in 1..(k - 1) : analyzer.futures[j].state # "queued"
    /\ Cardinality(Running(analyzer.futures)) < analyzer.max_concurrent_requests
    /\ FutureStep(k, [analyzer.futures[k] EXCEPT !.state = "acquiring"], 0)

\* with self._semaphore: the permit is taken when one is free
AcquireSemaphore(k) ==
    /\ analyzer.futures[k].state = "acquiring"
    /\ analyzer._semaphore > 0
    /\ FutureStep(k, [analyzer.futures[k] EXCEPT !.state = "sleeping"], -1)

\* the sleep is over: analysis_function(frame, frame_index) is called
CallAnalysisFunction(k) ==
    /\ analyzer.futures[k].state = "sleeping"
    /\ FutureStep(k, [analyzer.futures[k] EXCEPT !.state = "analysing",
                                                 !.calls = @ + 1], 0)

\* analysis_function returns: the result is returned, the permit released
AnalysisReturns(k) ==
    LET future == analyzer.futures[k]
    IN  /\ future.state = "analysing"
        /\ FutureStep(k, [future EXCEPT
                 !.state = "done",
                 !.outcome = Returned(Analysis(future.frame, future.frame_index))],
                 ReleasedOnExit(FALSE))

\* analysis_function raises: another attempt after the backoff, or the
\* exception is raised out of the with block, which releases the permit
AnalysisRaises(k) ==
    LET future == analyzer.futures[k]
    IN  /\ future.state = "analysing"
        /\ IF LastAttempt(future.attempt, analyzer.retry_attempts)
           THEN FutureStep(k, [future EXCEPT !.state = "done",
                                            !.outcome = Raised("RuntimeError")],
                           ReleasedOnExit(TRUE))
           ELSE FutureStep(k, [future EXCEPT !.state = "sleeping",
                                            !.attempt = @ + 1], 0)

\* as_completed yields a finished future: its result, or the error marker,
\* is stored under its frame index
CollectFuture(k) ==
    /\ pc = "collecting"
    /\ analyzer.futures[k].state = "done"
    /\ k \notin result.value.yielded
    /\ LET locals == result.value
           future == analyzer.futures[k]
           failed == future.outcome.raised # ""
           stored == IF failed
                     THEN ErrorMarker(future.outcome.raised, future.frame_index)
                     ELSE future.outcome.value
       IN  Step("collecting",
                [results_dict |-> DictSet(locals.results_dict, future.frame_index, stored),
                 failed_count |-> locals.failed_count + (IF failed THEN 1 ELSE 0),
                 yielded |-> locals.yielded \cup {k}])

\* every future has been yielded: the analyses sorted by index and the
\* metadata are returned
ReturnAnalyses ==
    /\ pc = "collecting"
    /\ result.value.yielded = DOMAIN analyzer.futures
    /\ LET locals == result.value
           analyses == ByIndex(locals.results_dict)
       IN  Return(Returned(
               [analyses |-> analyses,
                metadata |->
                   [total_frames |-> Len(args.frames),
                    successful_analyses |-> Len(analyses) - locals.failed_count,
                    failed_analyses |-> locals.failed_count,
                    max_concurrent_requests |-> analyzer.max_concurrent_requests]]))

WorkersTakeTasks == \E k \in DOMAIN analyzer.futures : WorkerTakesTask(k)

WorkersAcquire == \E k \in DOMAIN analyzer.futures : AcquireSemaphore(k)

WorkersCall == \E k \in DOMAIN analyzer.futures : CallAnalysisFunction(k)

AnalysesReturn == \E k \in DOMAIN analyzer.futures : AnalysisReturns(k)

AnalysesRaise == \E k \in DOMAIN analyzer.futures : AnalysisRaises(k)

CollectFutures == \E k \in DOMAIN analyzer.futures : CollectFuture(k)

NextAnalyzer ==
    \/ SubmitTasks
    \/ WorkersTakeTasks
    \/ WorkersAcquire
    \/ WorkersCall
    \/ AnalysesReturn
    \/ AnalysesRaise
    \/ CollectFutures
    \/ ReturnAnalyses

SpecAnalyzer == InitAnalyzer /\ [][NextAnalyzer]_vars

\* as long as some thread can take a step, one of them does: the scheduler
\* runs a thread that is ready, a sleep ends, and a call of
\* analysis_function that is in progress returns or raises
FairThreads == WF_vars(NextAnalyzer)

SpecAnalyzerFair == InitAnalyzerDefault /\ [][NextAnalyzer]_vars /\ FairThreads

(***************************************************************************)
(* Parallel frame extraction.  extract_frames_parallel submits one         *)
(* _extract_single_frame task per index to a pool of max_workers           *)
(* processes and collects them with as_completed under one deadline of     *)
(* timeout * len(frame_indices).  Time is counted in whole seconds; how    *)
(* long each extraction takes and what it gives (a frame, None when the    *)
(* frame cannot be decoded, an exception) is drawn when it is submitted.   *)
(***************************************************************************)
MaxExtracted == 2
MaxDuration == 3

\* what _extract_single_frame may give for frame index idx
ExtractionOutcomes(idx) ==
    {Returned([frame_index |-> idx]), Returned(None), Raised("cv2.error")}

ExtractionCalls ==
    {Call("extract_frames_parallel",
          [video_exists |-> exists, frame_indices |-> indices,
           max_workers |-> w, timeout |-> 1]) :
        exists \in BOOLEAN,
        indices \in UNION {[1..n -> FrameIndexValues] : n \in 0..MaxExtracted},
        w \in 1..2}

InitExtraction == \E c \in ExtractionCalls : Started(get_default_rules, 0, c)

\* the video file is missing
VideoNotFound ==
    /\ pc = "called" /\ op = "extract_frames_parallel"
    /\ ~args.video_exists
    /\ Return(Raised("FileNotFoundError"))

\* every extraction is submitted; as_completed is entered at time 0 with
\* its deadline, timeout * len(frame_indices)
SubmitExtractions ==
    /\ pc = "called" /\ op = "extract_frames_parallel"
    /\ args.video_exists
    /\ \E durations \in [DOMAIN args.frame_indices -> 1..MaxDuration] :
       \E outcomes \in [DOMAIN args.frame_indices ->
                            UNION {ExtractionOutcomes(idx) : idx \in FrameIndexValues}] :
          /\ \A k \in DOMAIN args.frame_indices :
                 outcomes[k] \in ExtractionOutcomes(args.frame_indices[k])
          /\ Step("extracting",
                  [futures |->
                      [k \in DOMAIN args.frame_indices |->
                          [frame_index |-> args.frame_indices[k], state |-> "queued",
                           duration |-> durations[k], remaining |-> durations[k],
                           outcome |-> outcomes[k]]],
                   now |-> 0,
                   deadline |-> args.timeout * Len(args.frame_indices),
                   frames_dict |-> <<>>,
                   failed_indices |-> <<>>,
                   yielded |-> {},
                   timed_out |-> FALSE])

\* the tasks a worker process is running
Extracting(futures) == {k \in DOMAIN futures : futures[k].state = "running"}

\* a free worker process takes the oldest queued task
CanTakeExtraction(locals, k) ==
    /\ locals.futures[k].state = "queued"
    /\ \A j \in 1..(k - 1) : locals.futures[j].state # "queued"
    /\ Cardinality(Extracting(locals.futures)) < args.max_workers

ProcessTakesTask ==
    /\ pc \in {"extracting", "shutting_down"}
    /\ \E k \in DOMAIN result.value.futures :
          /\ CanTakeExtraction(result.value, k)
          /\ Step(pc, [result.value EXCEPT !.futures[k].state = "running"])

\* as_completed has a finished future to yield
CanYield(locals) ==
    \E k \in DOMAIN locals.futures :
        locals.futures[k].state = "done" /\ k \notin locals.yielded

\* as_completed yields a finished future; future.result(timeout=...) returns
\* at once: the frame is kept under its index, None or an exception puts
\* the index among the failed ones
CollectExtraction ==
    /\ pc = "extracting"
    /\ \E k \in DOMAIN result.value.futures :
          LET locals == result.value
              future == locals.futures[k]
              frame == future.outcome.raised = "" /\ future.outcome.value # None
          IN  /\ future.state = "done" /\ k \notin locals.yielded
              /\ Step("extracting",
                      [locals EXCEPT
                          !.yielded = @ \cup {k},
                          !.frames_dict =
                              IF frame THEN DictSet(@, future.frame_index, future.outcome.value)
                              ELSE @,
                          !.failed_indices =
                              IF frame THEN @ ELSE Append(@, future.frame_index)])

\* a second passes while the caller waits in as_completed, or while the
\* executor shuts down: the running extractions go on and those whose
\* time is up finish
SecondPasses ==
    /\ \/ /\ pc = "extracting"
          /\ ~CanYield(result.value)
          /\ result.value.now < result.value.deadline
       \/ pc = "shutting_down"
    /\ \A k \in DOMAIN result.value.futures : ~CanTakeExtraction(result.value, k)
    /\ Extracting(result.value.futures) # {}
    /\ Step(pc,
            [result.value EXCEPT
                !.now = @ + 1,
                !.futures =
                    [k \in DOMAIN @ |->
                        IF @[k].state # "running" THEN @[k]
                        ELSE IF @[k].remaining = 1
                        THEN [@[k] EXCEPT !.remaining = 0, !.state = "done"]
                        ELSE [@[k] EXCEPT !.remaining = @ - 1]]])

\* the deadline has passed with futures unfinished: as_completed raises
\* TimeoutError, outside the try of the loop body, and the with block is
\* left
AsCompletedTimesOut ==
    /\ pc = "extracting"
    /\ ~CanYield(result.value)
    /\ result.value.now >= result.value.deadline
    /\ result.value.yielded # DOMAIN result.value.futures
    /\ Step("shutting_down", [result.value EXCEPT !.timed_out = TRUE])

\* the executor has waited for every extraction: the TimeoutError reaches
\* the caller
ShutdownRaises ==
    /\ pc = "shutting_down"
    /\ \A k \in DOMAIN result.value.futures : result.value.futures[k].state = "done"
    /\ result' = [raised |-> "TimeoutError", value |-> EmptyDict,
                  futures |-> result.value.futures]
    /\ pc' = "returned"
    /\ UNCHANGED <<rules, hash_seed, op, args, earlier, manager, analyzer>>

\* every future has been yielded: the frames sorted by index and the
\* metadata are returned
ReturnFrames ==
    /\ pc = "extracting"
    /\ result.value.yielded = DOMAIN result.value.futures
    /\ LET locals == result.value
           frames == ByIndex(locals.frames_dict)
       IN  result' =
              [raised |-> "",
               value |->
                  [frames |-> frames,
                   metadata |->
                      [total_frames_requested |-> Len(args.frame_indices),
                       total_frames_extracted |-> Len(frames),
                       failed_frames |-> Len(locals.failed_indices),
                       failed_indices |-> locals.failed_indices,
                       workers_used |-> args.max_workers]],
               futures |-> locals.futures]
    /\ pc' = "returned"
    /\ UNCHANGED <<rules, hash_seed, op, args, earlier, manager, analyzer>>

NextExtraction ==
    \/ VideoNotFound
    \/ SubmitExtractions
    \/ ProcessTakesTask
    \/ CollectExtraction
    \/ SecondPasses
    \/ AsCompletedTimesOut
    \/ ShutdownRaises
    \/ ReturnFrames

SpecExtraction == InitExtraction /\ [][NextExtraction]_vars

(***************************************************************************)
(* Properties.                                                             *)
(***************************************************************************)
Returns(o) == pc = "returned" /\ op = o /\ result.raised = ""

\* base + x * slope
Linear(base, x, slope) == RAdd(RInt(base), RMul(x, RInt(slope)))

AtMost95(x) == IF x > 95 THEN 95 ELSE x

InUnitInterval(x) == RLeq(Zero, x) /\ RLeq(x, One)

\* the thresholds in effect are the default ones
DefaultThresholds ==
    /\ Threshold(rules, "high_confidence_threshold", Rat(75, 100)) = Rat(75, 100)
    /\ Threshold(rules, "moderate_confidence_threshold", Rat(55, 100)) = Rat(55, 100)
    /\ Threshold(rules, "uncertain_threshold", Rat(45, 100)) = Rat(45, 100)

\* C1: with the default thresholds synthesize_verdict maps the combined
\* score c to exactly one of five labels and its confidence: c >= 0.75 FAKE
\* min(95, floor(70 + (c - 0.75) * 100)); 0.55 <= c < 0.75 LIKELY FAKE
\* floor(55 + (c - 0.55) * 75); 0.45 <= c < 0.55 UNCERTAIN 50;
\* 0.25 <= c < 0.45 LIKELY REAL floor(55 + (0.45 - c) * 75); c < 0.25 REAL
\* min(95, floor(70 + (0.45 - c) * 100)).  A score equal to a threshold is
\* in the more-fake bucket; only FAKE and REAL are capped at 95.
C1_DefaultVerdictMapping ==
    (Returns("synthesize_verdict") /\ DefaultThresholds) =>
        LET c == result.value.scores.combined
            label == result.value.classification
            confidence == result.value.confidence
        IN  /\ RGeq(c, Rat(75, 100)) =>
                /\ label = "FAKE"
                /\ confidence = AtMost95(RFloor(Linear(70, RSub(c, Rat(75, 100)), 100)))
            /\ (RGeq(c, Rat(55, 100)) /\ RLt(c, Rat(75, 100))) =>
                /\ label = "LIKELY FAKE"
                /\ confidence = RFloor(Linear(55, RSub(c, Rat(55, 100)), 75))
            /\ (RGeq(c, Rat(45, 100)) /\ RLt(c, Rat(55, 100))) =>
                /\ label = "UNCERTAIN"
                /\ confidence = 50
            /\ (RGeq(c, Rat(25, 100)) /\ RLt(c, Rat(45, 100))) =>
                /\ label = "LIKELY REAL"
                /\ confidence = RFloor(Linear(55, RSub(Rat(45, 100), c), 75))
            /\ RLt(c, Rat(25, 100)) =>
                /\ label = "REAL"
                /\ confidence = AtMost95(RFloor(Linear(70, RSub(Rat(45, 100), c), 100)))

\* a combined score equal to the high threshold has been classified
C1_Witness ==
    /\ Returns("synthesize_verdict") /\ DefaultThresholds
    /\ result.value.scores.combined = Rat(75, 100)
    /\ result.value.classification = "FAKE"
    /\ result.value.confidence = 70

\* the scores of the test's two frame analyses, 0.9 and 0.8, with temporal
\* score 0.7
HighSuspicionCall ==
    /\ Len(args.frame_analyses) = 2
    /\ Get(args.frame_analyses[1], "artifact_score", Zero) = Rat(9, 10)
    /\ Get(args.frame_analyses[2], "artifact_score", Zero) = Rat(8, 10)
    /\ Get(args.temporal_analysis, "temporal_score", Zero) = Rat(7, 10)

\* C2: visual_avg is the arithmetic mean of the frame analyses'
\* artifact_score values, visual_max their maximum, combined =
\* 0.6 * visual_avg + 0.4 * temporal_score, and all four are returned under
\* 'scores'; artifact scores [0.9, 0.8] with temporal score 0.7 give
\* combined 0.79, FAKE and confidence 74.
C2_ScoresAndExample ==
    Returns("synthesize_verdict") =>
        LET xs == [i \in DOMAIN args.frame_analyses |->
                      Get(args.frame_analyses[i], "artifact_score", Zero)]
            t == Get(args.temporal_analysis, "temporal_score", Zero)
            scores == result.value.scores
        IN  /\ DOMAIN scores = {"combined", "visual_avg", "visual_max", "temporal"}
            /\ xs # <<>> =>
                /\ RMul(scores.visual_avg, RInt(Len(xs))) = RSum(xs, 1)
                /\ scores.visual_max \in Range(xs)
                /\ \A x \in Range(xs) : RLeq(x, scores.visual_max)
            /\ scores.temporal = t
            /\ scores.combined =
                    RAdd(RMul(Rat(6, 10), scores.visual_avg), RMul(Rat(4, 10), t))
            /\ HighSuspicionCall =>
                /\ scores.combined = Rat(79, 100)
                /\ result.value.classification = "FAKE"
                /\ result.value.confidence = 74

C2_Witness ==
    /\ Returns("synthesize_verdict")
    /\ HighSuspicionCall
    /\ result.value.scores.visual_avg = Rat(85, 100)
    /\ result.value.scores.visual_max = Rat(9, 10)

\* the three thresholds in effect are in order within [0, 1]
OrderedThresholds ==
    LET high == Threshold(rules, "high_confidence_threshold", Rat(75, 100))
        mod == Threshold(rules, "moderate_confidence_threshold", Rat(55, 100))
        uncertain == Threshold(rules, "uncertain_threshold", Rat(45, 100))
    IN  RLeq(Zero, uncertain) /\ RLeq(uncertain, mod) /\ RLeq(mod, high) /\ RLeq(high, One)

\* C3: for every rule configuration that overrides the three thresholds
\* with 0 <= uncertain <= moderate <= high <= 1 and every combined score in
\* [0, 1], the confidence is an integer with 0 <= confidence <= 100.
C3_ConfidenceWithinRange ==
    (Returns("synthesize_verdict") /\ OrderedThresholds
        /\ InUnitInterval(result.value.scores.combined)) =>
            result.value.confidence \in 0..100

LabelRank(label) ==
    CASE label = "REAL" -> 0
      [] label = "LIKELY REAL" -> 1
      [] label = "UNCERTAIN" -> 2
      [] label = "LIKELY FAKE" -> 3
      [] label = "FAKE" -> 4

\* a synthesize_verdict call returned before the current one, under the
\* rules now loaded
ReturnedEarlier == earlier.called /\ earlier.rules = rules

\* C4: classification is a non-decreasing step function of the combined
\* score: under any threshold configuration, of two calls with combined
\* scores c1 <= c2 the one with c2 never gets a more-real label, in the order
\* REAL < LIKELY REAL < UNCERTAIN < LIKELY FAKE < FAKE.
C4_ClassificationMonotone ==
    (Returns("synthesize_verdict") /\ ReturnedEarlier) =>
        LET c1 == earlier.result.value.scores.combined
            c2 == result.value.scores.combined
            rank1 == LabelRank(earlier.result.value.classification)
            rank2 == LabelRank(result.value.classification)
        IN  /\ RLeq(c1, c2) => rank1 <= rank2
            /\ RLeq(c2, c1) => rank2 <= rank1

\* two calls under thresholds out of order, the lower score in a more-real
\* bucket than the higher
C4_Witness ==
    /\ Returns("synthesize_verdict") /\ ReturnedEarlier
    /\ ~OrderedThresholds
    /\ RLt(earlier.result.value.scores.combined, result.value.scores.combined)
    /\ LabelRank(earlier.result.value.classification)
            < LabelRank(result.value.classification)

\* C5: degenerate inputs resolve to defined defaults: the temporal analysis
\* of zero or one frame returns no findings and temporal_score 0;
\* synthesize_verdict on no frame analyses and temporal score 0 returns
\* visual_avg 0, visual_max 0, combined 0, REAL and confidence 95.
C5_DegenerateInputs ==
    /\ (pc = "returned" /\ op = "analyze_temporal_sequence"
            /\ Len(args.frames) <= 1) =>
            /\ result.raised = ""
            /\ result.value.temporal_findings = <<>>
            /\ result.value.temporal_score = Zero
    /\ (pc = "returned" /\ op = "synthesize_verdict"
            /\ args.frame_analyses = <<>>
            /\ Get(args.temporal_analysis, "temporal_score", Zero) = Zero) =>
            /\ result.raised = ""
            /\ result.value.scores.visual_avg = Zero
            /\ result.value.scores.visual_max = Zero
            /\ result.value.scores.combined = Zero
            /\ result.value.classification = "REAL"
            /\ result.value.confidence = 95

C5_Witness ==
    /\ Returns("synthesize_verdict")
    /\ args.frame_analyses = <<>>
    /\ "temporal_score" \in DOMAIN args.temporal_analysis
    /\ args.temporal_analysis.temporal_score = Zero
    /\ result.value.classification = "REAL"

\* C6: synthesize_verdict is a deterministic function of its explicit
\* inputs: under the same loaded rules, two invocations with identical
\* frame_analyses and temporal_analysis return identical verdicts, the
\* reasoning text and the order of its KEY EVIDENCE findings included.
C6_SameInputsSameVerdict ==
    (Returns("synthesize_verdict") /\ ReturnedEarlier /\ earlier.args = args) =>
        earlier.result = result

\* the scores of the three visual rules
ArtifactKinds == {"facial_smoothing", "lighting_inconsistency", "boundary_artifacts"}

\* C7: _detect_visual_artifacts maps its three measurements to scores by
\* fixed breakpoints with strict comparisons: variance < 100 gives
\* facial_smoothing 0.7, 100 <= variance < 200 gives 0.4, variance >= 200
\* gives 0; gradient deviation < 20 gives lighting_inconsistency 0.6, else 0;
\* edge density < 0.05 gives boundary_artifacts 0.5, density > 0.20 gives 0.4,
\* a density in [0.05, 0.20] gives 0.  Each non-zero score adds exactly one
\* finding and a zero score none, so a frame of variance 0 gets
\* facial_smoothing > 0 and a finding containing 'smoothing'.
C7_ArtifactBreakpoints ==
    Returns("_detect_visual_artifacts") =>
        LET variance == args.frame.laplacian_var
            deviation == args.frame.grad_std
            edges == args.frame.edge_pixels
            pixels == args.frame.size
            a == result.value
        IN  /\ a.facial_smoothing =
                    (IF variance < 100 THEN Rat(7, 10)
                     ELSE IF variance < 200 THEN Rat(4, 10) ELSE Zero)
            /\ a.lighting_inconsistency =
                    (IF deviation < 20 THEN Rat(6, 10) ELSE Zero)
            /\ a.boundary_artifacts =
                    (IF 100 * edges < 5 * pixels THEN Rat(5, 10)
                     ELSE IF 100 * edges > 20 * pixels THEN Rat(4, 10) ELSE Zero)
            /\ Len(a.findings) = Cardinality({k \in ArtifactKinds : a[k] # Zero})
            /\ Cardinality(Range(a.findings)) = Len(a.findings)
            /\ variance = 0 =>
                /\ RGt(a.facial_smoothing, Zero)
                /\ \E i \in DOMAIN a.findings : "smoothing" \in Keywords(a.findings[i])

\* a frame of variance 0 whose edge density is exactly 0.20
C7_Witness ==
    /\ Returns("_detect_visual_artifacts")
    /\ args.frame.laplacian_var = 0
    /\ 100 * args.frame.edge_pixels = 20 * args.frame.size
    /\ result.value.facial_smoothing = Rat(7, 10)
    /\ result.value.boundary_artifacts = Zero

\* the weight of the rule is missing from the rules, or is the default
DefaultOrMissing(kind, default) ==
    Get(Get(Get(rules, "visual_rules", EmptyDict), kind, EmptyDict),
        "weight", default) = default

DefaultWeights ==
    /\ DefaultOrMissing("facial_smoothing", Rat(25, 100))
    /\ DefaultOrMissing("lighting_inconsistency", Rat(20, 100))
    /\ DefaultOrMissing("boundary_artifacts", Rat(20, 100))

\* C8: with the default weights 0.25 / 0.20 / 0.20 (also used for any weight
\* missing from the rules) facial_smoothing, lighting_inconsistency,
\* boundary_artifacts and total_score all lie in [0, 1], and total_score =
\* facial_smoothing * 0.25 + lighting_inconsistency * 0.20 +
\* boundary_artifacts * 0.20.
C8_DefaultWeightedTotal ==
    (Returns("_detect_visual_artifacts") /\ DefaultWeights) =>
        LET a == result.value
        IN  /\ \A k \in ArtifactKinds : InUnitInterval(a[k])
            /\ InUnitInterval(a.total_score)
            /\ a.total_score =
                    RAdd(RAdd(RMul(a.facial_smoothing, Rat(25, 100)),
                              RMul(a.lighting_inconsistency, Rat(20, 100))),
                         RMul(a.boundary_artifacts, Rat(20, 100)))

\* all three rules fire under rules that leave weights out
C8_Witness ==
    /\ Returns("_detect_visual_artifacts")
    /\ rules = PartialRules
    /\ Len(result.value.findings) = 3
    /\ result.value.total_score = Rat(395, 1000)

\* C9: analyze_temporal_sequence adds at most one finding per consecutive
\* pair of frames, so temporal_score = len(temporal_findings) /
\* max(len(frames) - 1, 1) lies in [0, 1], and num_frames = len(frames).
C9_TemporalScoreBounds ==
    Returns("analyze_temporal_sequence") =>
        LET n == Len(args.frames)
            pairs == IF n >= 1 THEN n - 1 ELSE 0
            report == result.value
        IN  /\ Len(report.temporal_findings) <= pairs
            /\ report.temporal_score =
                    Rat(Len(report.temporal_findings), IF n - 1 > 1 THEN n - 1 ELSE 1)
            /\ InUnitInterval(report.temporal_score)
            /\ report.num_frames = n

\* every pair of three frames has a finding
C9_Witness ==
    /\ Returns("analyze_temporal_sequence")
    /\ Len(args.frames) = 3
    /\ Len(result.value.temporal_findings) = 2
    /\ result.value.temporal_score = One

\* the mean absolute luminance difference of frames i and i + 1, as a sum
\* over the pixels and the number of pixels
DifferenceSum(frames, i) ==
    LET g1 == frames[i].gray
        g2 == frames[i + 1].gray
        d(p) == IF g1[p] >= g2[p] THEN g1[p] - g2[p] ELSE g2[p] - g1[p]
        total[p \in 0..Len(g1)] == IF p = 0 THEN 0 ELSE total[p - 1] + d(p)
    IN  total[Len(g1)]

LargeMotion(frames, i) == DifferenceSum(frames, i) > 50 * Len(frames[i].gray)
LowMotion(frames, i) == DifferenceSum(frames, i) < 5 * Len(frames[i].gray)

\* the pairs that get a finding, and the k-th of them
FlaggedPairs(frames) ==
    {i \in 1..(Len(frames) - 1) : LargeMotion(frames, i) \/ LowMotion(frames, i)}

KthFlagged(frames, k) ==
    CHOOSE i \in FlaggedPairs(frames) :
        Cardinality({j \in FlaggedPairs(frames) : j <= i}) = k

\* C10: for each consecutive pair (i, i+1), in order, a 'Large motion
\* discontinuity' finding is added when the mean absolute luminance
\* difference is > 50, a 'Very low motion' finding when it is < 5, nothing
\* when it is in [5, 50]; each finding names frame_indices[i] and
\* frame_indices[i+1] and findings appear in pair order.  Hence k >= 2
\* identical frames yield k - 1 'very low motion' findings and
\* temporal_score > 0.
C10_MotionFindings ==
    Returns("analyze_temporal_sequence") =>
        LET frames == args.frames
            frame_indices == args.frame_indices
            findings == result.value.temporal_findings
        IN  /\ Len(findings) = Cardinality(FlaggedPairs(frames))
            /\ \A k \in DOMAIN findings :
                    LET i == KthFlagged(frames, k)
                    IN  /\ findings[k].frames = <<frame_indices[i], frame_indices[i + 1]>>
                        /\ findings[k].text =
                                (IF LargeMotion(frames, i)
                                 THEN "Large motion discontinuity between frames"
                                 ELSE "Very low motion between frames (potentially static/frozen)")
            /\ (Len(frames) >= 2 /\ \A i \in DOMAIN frames : frames[i] = frames[1]) =>
                    /\ Len(findings) = Len(frames) - 1
                    /\ \A k \in DOMAIN findings :
                            findings[k].text =
                                "Very low motion between frames (potentially static/frozen)"
                    /\ RGt(result.value.temporal_score, Zero)

\* three frames whose first pair differs by exactly 50 (no finding) and
\* whose second pair is identical: one finding, naming the second pair
C10_Witness ==
    /\ Returns("analyze_temporal_sequence")
    /\ Len(args.frames) = 3
    /\ DifferenceSum(args.frames, 1) = 50 * Len(args.frames[1].gray)
    /\ args.frames[2] = args.frames[3]
    /\ args.frame_indices = <<0, 5, 10>>
    /\ Len(result.value.temporal_findings) = 1
    /\ result.value.temporal_findings[1].frames = <<5, 10>>

\* C11: analyze_temporal_sequence called with len(frames) different from
\* len(frame_indices) fails with an error: it never returns a report for
\* mismatched lists, whatever the frame contents are.
C11_MismatchedListsFail ==
    (/\ pc = "returned"
     /\ op = "analyze_temporal_sequence"
     /\ Len(args.frames) # Len(args.frame_indices)) =>
        result.raised # ""

\* the rules file is missing or malformed (unparseable, or empty)
ConfigurationProblem(file) ==
    \/ ~file.exists
    \/ file.content \in {"unparseable", "empty"}

\* C12: when the detection-rules file is missing or malformed (unparseable,
\* or empty), constructing LocalAgentRunner still succeeds and every later
\* analyze_frame / synthesize_verdict call behaves as with the built-in
\* default table; the configuration problem is never surfaced as a failure.
C12_ConfigurationProblemRecovered ==
    (earlier.called /\ ConfigurationProblem(earlier.rules_file)) =>
        /\ op = "__init__" => result.raised = ""
        /\ (pc = "returned" /\ op = "analyze_frame") =>
                result = Returned(analyze_frame(args.frame, args.frame_index,
                                                get_default_rules))
        /\ (pc = "returned" /\ op = "synthesize_verdict") =>
                result = Returned(synthesize_verdict(args.frame_analyses,
                                                     args.temporal_analysis,
                                                     get_default_rules, hash_seed))

StrictlyAscending(indices) ==
    \A i \in 1..(Len(indices) - 1) : indices[i] < indices[i + 1]

WithinVideo(indices, total_frames) ==
    \A i \in DOMAIN indices : 0 <= indices[i] /\ indices[i] < total_frames

\* C13: for every total_frames > num_frames > 0, uniform sampling returns
\* exactly the list [floor(i * total_frames / num_frames) for i = 0 ..
\* num_frames - 1], which is strictly ascending, has length num_frames and
\* lies in [0, total_frames); uniform sampling of 100 frames with 5
\* requested returns [0, 20, 40, 60, 80].
C13_UniformSampling ==
    (Returns("_uniform_sampling") /\ args.total_frames > args.num_frames) =>
        LET indices == result.value
        IN  /\ Len(indices) = args.num_frames
            /\ \A n \in DOMAIN indices :
                    indices[n] = ((n - 1) * args.total_frames) \div args.num_frames
            /\ StrictlyAscending(indices)
            /\ WithinVideo(indices, args.total_frames)
            /\ (args.total_frames = 100 /\ args.num_frames = 5) =>
                    indices = <<0, 20, 40, 60, 80>>

\* C14: for all total_frames >= 0 and num_frames > 0,
\* EmotionBasedSampler.sample_frames returns exactly min(num_frames,
\* total_frames) indices: the largest-gap fill loop adds indices until the
\* exact count is reached.
C14_EmotionExactCount ==
    Returns("EmotionBasedSampler.sample_frames") =>
        Len(result.value) = PyMin(args.num_frames, args.total_frames)

\* C15: for all total_frames >= 0 and num_frames > 0, the list returned by
\* EmotionBasedSampler.sample_frames contains no duplicate index (it is
\* strictly ascending): the midpoint inserted by the largest-gap fill step
\* is never an index already in the list.
C15_EmotionNoDuplicates ==
    Returns("EmotionBasedSampler.sample_frames") =>
        /\ StrictlyAscending(result.value)
        /\ Cardinality(Range(result.value)) = Len(result.value)

\* metadata is absent, or carries fps > 0 and any duration >= 0
UsableMetadata(metadata) ==
    \/ metadata = None
    \/ /\ "fps" \in DOMAIN metadata
       /\ RGt(metadata.fps, Zero)
       /\ "duration" \in DOMAIN metadata => RGeq(metadata.duration, Zero)

\* C16: for every total_frames > num_frames >= 2, with metadata absent or
\* carrying fps > 0 and any duration >= 0, SceneBasedSampler.sample_frames
\* returns exactly num_frames indices, strictly ascending (no duplicates),
\* each in [0, total_frames).
C16_SceneExactCount ==
    (/\ pc = "returned" /\ op = "SceneBasedSampler.sample_frames"
     /\ args.total_frames > args.num_frames /\ args.num_frames >= 2
     /\ UsableMetadata(args.metadata)) =>
        /\ result.raised = ""
        /\ Len(result.value) = args.num_frames
        /\ StrictlyAscending(result.value)
        /\ WithinVideo(result.value, args.total_frames)

\* nine frames of a 30-frame video of two scenes: boundaries and midpoints
\* give six indices, the uniform fallback the rest
C16_Witness ==
    /\ Returns("SceneBasedSampler.sample_frames")
    /\ args.total_frames = 30 /\ args.num_frames = 9
    /\ args.metadata = [fps |-> RInt(30), duration |-> Zero]
    /\ Len(result.value) = 9
    /\ StrictlyAscending(result.value)

SamplerOps ==
    {"_uniform_sampling", "EmotionBasedSampler.sample_frames",
     "SceneBasedSampler.sample_frames"}

\* C17: no sampling strategy ever raises: for all total_frames >= 0 and
\* num_frames > 0 and any metadata (including none), uniform,
\* emotion-weighted and scene-weighted sampling each return a list instead
\* of failing, for example with a division by zero.
C17_SamplersNeverRaise ==
    (pc = "returned" /\ op \in SamplerOps) => result.raised = ""

\* C18: whenever uniform, emotion-weighted or scene-weighted sampling
\* returns a list, the list is sorted in non-decreasing order, every index is
\* in [0, total_frames), and its length is at most num_frames; when
\* total_frames <= num_frames the result is exactly 0, 1, ...,
\* total_frames - 1.
C18_SampledIndicesWellFormed ==
    (pc = "returned" /\ op \in SamplerOps /\ result.raised = "") =>
        LET indices == result.value
        IN  /\ \A i \in 1..(Len(indices) - 1) : indices[i] <= indices[i + 1]
            /\ WithinVideo(indices, args.total_frames)
            /\ Len(indices) <= args.num_frames
            /\ args.total_frames <= args.num_frames =>
                    /\ Len(indices) = args.total_frames
                    /\ \A i \in DOMAIN indices : indices[i] = i - 1

\* a five-frame video with seven frames requested: all five, in order
C18_Witness ==
    /\ Returns("SceneBasedSampler.sample_frames")
    /\ args.total_frames = 5 /\ args.num_frames = 7
    /\ result.value = <<0, 1, 2, 3, 4>>

\* C19: the reasoning text always contains 'Classification: <label>
\* (Confidence: <confidence>%)', an ANALYSIS BREAKDOWN section and a
\* CONCLUSION section; its opening and closing statements depend only on
\* the bucket of the label (FAKE / LIKELY FAKE: synthetic or manipulated;
\* UNCERTAIN: mixed signals, inconclusive; REAL / LIKELY REAL: authentic,
\* natural); a KEY EVIDENCE section is present exactly when there is at
\* least one finding and lists at most 5 findings, each of them distinct.
C19_ReasoningText ==
    Returns("_generate_reasoning") =>
        LET text == result.value
            label == args.classification
        IN  /\ text.classification = label
            /\ text.confidence = args.confidence
            /\ {"ANALYSIS BREAKDOWN:", "CONCLUSION:"} \subseteq Range(text.headers)
            /\ label \in {"FAKE", "LIKELY FAKE"} =>
                /\ text.opening =
                      "The video exhibits multiple characteristics consistent with synthetic generation or manipulation."
                /\ text.conclusion =
                      "The combination of visual and temporal artifacts suggests this video is synthetically generated or significantly manipulated."
            /\ label = "UNCERTAIN" =>
                /\ text.opening =
                      "The analysis reveals mixed signals, making confident classification difficult."
                /\ text.conclusion = "The evidence is inconclusive."
            /\ label \in {"REAL", "LIKELY REAL"} =>
                /\ text.opening =
                      "The video demonstrates characteristics consistent with authentic, non-manipulated footage."
                /\ text.conclusion =
                      "The video shows natural characteristics expected of authentic footage."
            /\ "KEY EVIDENCE:" \in Range(text.headers) <=> args.all_findings # <<>>
            /\ args.all_findings = <<>> <=> text.key_evidence = <<>>
            /\ Len(text.key_evidence) <= 5
            /\ Cardinality(Range(text.key_evidence)) = Len(text.key_evidence)
            /\ Range(text.key_evidence) \subseteq Range(args.all_findings)

\* nine findings, seven of them distinct: five are listed
C19_Witness ==
    /\ Returns("_generate_reasoning")
    /\ args.classification = "FAKE"
    /\ Len(args.all_findings) = 9
    /\ Cardinality(Range(args.all_findings)) = 7
    /\ Len(result.value.key_evidence) = 5
    /\ "KEY EVIDENCE:" \in Range(result.value.headers)

\* C20: in the detection pipeline (DeepfakeDetector.detect), the
\* frame_index attached to every frame analysis and the indices named in
\* temporal findings are the frames' positions in the original video's
\* frame sequence (the indices chosen by the sampler), not their positions
\* within the sampled subset.
C20_OriginalFrameIndices ==
    (op = "detect" /\ pc = "temporal_analysed") =>
        LET sampled == uniform_sampling(args.video.total_frames, args.num_frames)
            analysed == select_key_frames(Len(sampled))
            frame_analyses == result.value.frame_analyses
            temporal_findings == result.value.temporal_analysis.temporal_findings
        IN  /\ \A n \in DOMAIN frame_analyses :
                    frame_analyses[n].frame_index = sampled[analysed[n] + 1]
            /\ \A k \in DOMAIN temporal_findings :
                    \E i \in 1..(Len(sampled) - 1) :
                        temporal_findings[k].frames = <<sampled[i], sampled[i + 1]>>

\* C30: with the built-in default weights and thresholds, every total_score
\* produced by _detect_visual_artifacts is at most 0.395 (0.7*0.25 +
\* 0.6*0.20 + 0.5*0.20), so for any frames the combined score obtained from
\* analyze_frame and analyze_temporal_sequence results is at most 0.637,
\* below the 0.75 threshold: synthesize_verdict fed by the local agent's own
\* analyses never returns the classification FAKE.
C30_AgentNeverReturnsFake ==
    /\ (op = "detect" /\ pc \in {"frames_analysed", "temporal_analysed"}) =>
            \A n \in DOMAIN result.value.frame_analyses :
                LET analysis == result.value.frame_analyses[n]
                IN  /\ RLeq(analysis.artifacts_detected.total_score, Rat(395, 1000))
                    /\ RLeq(analysis.artifact_score, Rat(395, 1000))
    /\ Returns("detect") =>
            /\ RLeq(result.value.verdict.scores.combined, Rat(637, 1000))
            /\ result.value.verdict.classification # "FAKE"

\* a static video of smooth frames reaches both maxima
C30_Witness ==
    /\ Returns("detect")
    /\ result.value.verdict.scores.visual_max = Rat(395, 1000)
    /\ result.value.verdict.scores.combined = Rat(637, 1000)
    /\ result.value.verdict.classification = "LIKELY FAKE"

\* C29: for every total_frames >= num_frames >= 1, adaptive sampling returns
\* without raising, and returns exactly num_frames indices, sorted ascending,
\* with no duplicates, each in [0, total_frames).
C29_AdaptiveSampling ==
    (/\ pc = "returned" /\ op = "_adaptive_sampling"
     /\ args.total_frames >= args.num_frames) =>
        /\ result.raised = ""
        /\ Len(result.value) = args.num_frames
        /\ StrictlyAscending(result.value)
        /\ WithinVideo(result.value, args.total_frames)

\* what adaptive sampling does keep: below five requested frames it divides
\* by zero; from five on it returns at most num_frames strictly ascending
\* indices of the video, at least one of them when the video has a frame
C29_AdaptiveSamplingKept ==
    (pc = "returned" /\ op = "_adaptive_sampling") =>
        IF args.num_frames < 5
        THEN result.raised = "ZeroDivisionError"
        ELSE /\ result.raised = ""
             /\ Len(result.value) <= args.num_frames
             /\ StrictlyAscending(result.value)
             /\ WithinVideo(result.value, args.total_frames)
             /\ args.total_frames >= 1 => Len(result.value) >= 1

\* ten frames of a hundred: four from the first fifth, two from the middle,
\* four from the last fifth
C29_Witness ==
    /\ Returns("_adaptive_sampling")
    /\ args.total_frames = 100 /\ args.num_frames = 10
    /\ result.value = <<0, 5, 10, 15, 20, 50, 80, 85, 90, 95>>

\* five frames requested of a five-frame video: only three come back
C29_ShortWitness ==
    /\ Returns("_adaptive_sampling")
    /\ args.total_frames = 5 /\ args.num_frames = 5
    /\ result.value = <<0, 1, 4>>

\* the successful registrations among `calls`, oldest first
RECURSIVE Registrations(_)
Registrations(calls) ==
    IF calls = <<>> THEN <<>>
    ELSE LET call == Head(calls)
             registered ==
                 /\ call.op \in {"register_frame_sampler", "register_analysis_hook"}
                 /\ call.result.raised = ""
         IN  (IF registered THEN <<call.args.plugin>> ELSE <<>>)
                 \o Registrations(Tail(calls))

\* the plugin most recently registered successfully under `name`, or None
LastRegistered(calls, name) ==
    LET plugins == Registrations(calls)
        under == {i \in DOMAIN plugins : plugins[i].name = name}
    IN  IF under = {} THEN None
        ELSE plugins[CHOOSE i \in under : \A j \in under : j <= i]

\* C25: after any sequence of register_frame_sampler calls: registering a
\* plugin whose name is already registered with overwrite=False raises
\* ValueError and leaves the registry unchanged (the earlier plugin stays
\* registered); with overwrite=True the new plugin replaces the old one; a
\* plugin lacking name or sample_frames is rejected with ValueError;
\* get_frame_sampler(name) returns the plugin most recently registered
\* successfully under that name, or None if there is none.
C25_SamplerRegistry ==
    LET plugin == args.plugin
        complete == hasattr(plugin, "name") /\ hasattr(plugin, "sample_frames")
    IN  /\ (pc = "returned" /\ op = "register_frame_sampler") =>
              /\ ~complete => result.raised = "ValueError"
              /\ (/\ complete /\ ~args.overwrite
                  /\ LastRegistered(earlier, plugin.name) # None) =>
                      /\ result.raised = "ValueError"
                      /\ get_frame_sampler(manager, plugin.name)
                             = LastRegistered(earlier, plugin.name)
              /\ (complete /\ args.overwrite) =>
                      /\ result.raised = ""
                      /\ get_frame_sampler(manager, plugin.name) = plugin
              /\ (complete /\ LastRegistered(earlier, plugin.name) = None) =>
                      /\ result.raised = ""
                      /\ get_frame_sampler(manager, plugin.name) = plugin
              /\ result.raised # "" =>
                      \A name \in {"a", "b", "c"} :
                          get_frame_sampler(manager, name) = LastRegistered(earlier, name)
        /\ (pc = "returned" /\ op = "get_frame_sampler") =>
              /\ result.raised = ""
              /\ result.value = LastRegistered(earlier, args.name)

\* plugin 1 registered as "a", plugin 2 refused without overwrite, and
\* get_frame_sampler("a") still returns plugin 1
C25_Witness ==
    /\ Returns("get_frame_sampler") /\ args.name = "a"
    /\ Len(earlier) = 2
    /\ earlier[1].op = "register_frame_sampler" /\ earlier[1].args.plugin.id = 1 /\ earlier[1].result.raised = ""
    /\ earlier[2].op = "register_frame_sampler" /\ earlier[2].args.plugin.id = 2 /\ ~earlier[2].args.overwrite
    /\ earlier[2].result.raised = "ValueError"
    /\ result.value.id = 1

\* plugin 2 replaces plugin 1 with overwrite=True
C25_OverwriteWitness ==
    /\ Returns("get_frame_sampler") /\ args.name = "a"
    /\ Len(earlier) = 2
    /\ earlier[1].op = "register_frame_sampler" /\ earlier[1].args.plugin.id = 1 /\ earlier[1].result.raised = ""
    /\ earlier[2].op = "register_frame_sampler" /\ earlier[2].args.plugin.id = 2 /\ earlier[2].args.overwrite
    /\ result.value.id = 2

HookNames == {"a", "b", "c"}

\* the method an execute_*_hooks call runs
HookMethod ==
    IF op = "execute_pre_analysis_hooks" THEN "pre_analysis_hook"
    ELSE "post_analysis_hook"

\* the hooks registered when the running call was made that implement its
\* method
HooksToRun ==
    {plugin \in {LastRegistered(earlier, name) : name \in HookNames} :
        plugin # None /\ hasattr(plugin, HookMethod)}

\* the place, among the successful registrations, of the latest one under
\* `name`, and of the first one
LatestRegistration(name) ==
    LET plugins == Registrations(earlier)
        under == {i \in DOMAIN plugins : plugins[i].name = name}
    IN  CHOOSE i \in under : \A j \in under : j <= i

FirstRegistration(name) ==
    LET plugins == Registrations(earlier)
        under == {i \in DOMAIN plugins : plugins[i].name = name}
    IN  CHOOSE i \in under : \A j \in under : i <= j

\* the plugin with this id among the hooks to run
HookToRun(id) == CHOOSE plugin \in HooksToRun : plugin.id = id

\* every hook to run was invoked exactly once, and nothing else was
InvokedOnce(invoked) ==
    /\ {invoked[i] : i \in DOMAIN invoked} = {plugin.id : plugin \in HooksToRun}
    /\ Len(invoked) = Cardinality(HooksToRun)

ExecutesHooks ==
    pc = "returned" /\ op \in {"execute_pre_analysis_hooks", "execute_post_analysis_hooks"}

\* C26: execute_pre_analysis_hooks and execute_post_analysis_hooks invoke
\* every registered hook that implements the corresponding method exactly
\* once, in registration order; an exception raised by one hook is
\* swallowed: it does not propagate to the caller and does not prevent the
\* hooks registered after it from running.
C26_HooksInRegistrationOrder ==
    ExecutesHooks =>
        /\ result.raised = ""
        /\ InvokedOnce(result.invoked)
        /\ \A i, j \in DOMAIN result.invoked :
                i < j => LatestRegistration(HookToRun(result.invoked[i]).name)
                            < LatestRegistration(HookToRun(result.invoked[j]).name)

\* C26 (amended): the hooks run in the order in which their names were
\* first registered (a plugin registered with overwrite=True takes the
\* place of the one it replaces); every registered hook implementing the
\* method is invoked exactly once and whatever it raises is swallowed,
\* unless a hook raises something that is not an Exception (SystemExit),
\* which propagates to the caller and ends the run at that hook.
C26_HooksInNameOrder ==
    ExecutesHooks =>
        LET invoked == result.invoked
            exits(id) == HookToRun(id)[HookMethod] = "raises SystemExit"
        IN  /\ \A i \in DOMAIN invoked :
                    /\ invoked[i] \in {plugin.id : plugin \in HooksToRun}
                    /\ exits(invoked[i]) => i = Len(invoked)
            /\ \A i, j \in DOMAIN invoked :
                    i < j => FirstRegistration(HookToRun(invoked[i]).name)
                                < FirstRegistration(HookToRun(invoked[j]).name)
            /\ \A plugin \in HooksToRun :
                    \/ plugin.id \in {invoked[i] : i \in DOMAIN invoked}
                    \/ /\ invoked # <<>>
                       /\ exits(invoked[Len(invoked)])
                       /\ FirstRegistration(HookToRun(invoked[Len(invoked)]).name)
                             < FirstRegistration(plugin.name)
            /\ IF invoked # <<>> /\ exits(invoked[Len(invoked)])
               THEN result.raised = "SystemExit"
               ELSE result.raised = "" /\ InvokedOnce(invoked)

\* hooks "a" and "b" registered, "a" replaced with overwrite=True: the
\* replacement runs first, then "b", whose RuntimeError is swallowed
C26_Witness ==
    /\ Returns("execute_pre_analysis_hooks")
    /\ Len(earlier) = 3
    /\ earlier[1].op = "register_analysis_hook" /\ earlier[1].args.plugin.id = 1 /\ earlier[1].result.raised = ""
    /\ earlier[2].op = "register_analysis_hook" /\ earlier[2].args.plugin.id = 2 /\ earlier[2].result.raised = ""
    /\ earlier[3].op = "register_analysis_hook" /\ earlier[3].args.plugin.id = 4 /\ earlier[3].result.raised = ""
    /\ result.invoked = <<4, 2>>

\* the failing hook "b" registered before "a": "a" still runs after it
C26_SwallowedWitness ==
    /\ Returns("execute_pre_analysis_hooks")
    /\ Len(earlier) = 2
    /\ earlier[1].op = "register_analysis_hook" /\ earlier[1].args.plugin.id = 2 /\ earlier[1].result.raised = ""
    /\ earlier[2].op = "register_analysis_hook" /\ earlier[2].args.plugin.id = 1 /\ earlier[2].result.raised = ""
    /\ result.invoked = <<2, 1>>

\* the video at place k of the list failed: detect raised, or saving its
\* result did
VideoFailed(k) == result.detected[k].raised # "" \/ result.saved[k].raised # ""

DetectionFailed(k) == result.detected[k].raised # ""

IsErrorEntry(entry) ==
    /\ DOMAIN entry = {"error", "classification", "confidence"}
    /\ entry.classification = "ERROR"
    /\ entry.confidence = 0

InProgress == {k \in DOMAIN analyzer.futures : analyzer.futures[k].state = "analysing"}

\* C21: during analyze_frames_parallel, under every thread interleaving, at
\* no moment are more than max_concurrent_requests invocations of
\* analysis_function in progress.
C21_ConcurrencyBounded ==
    op = "analyze_frames_parallel" =>
        Cardinality(InProgress) <= args.max_concurrent_requests

\* two frames and one permit: one invocation in progress, the semaphore
\* empty, and the second task still in the queue
C21_Witness ==
    /\ op = "analyze_frames_parallel" /\ pc = "collecting"
    /\ args.max_concurrent_requests = 1
    /\ Len(analyzer.futures) = 2
    /\ Cardinality(InProgress) = 1
    /\ analyzer._semaphore = 0
    /\ analyzer.futures[2].state = "queued"

\* two frames and two permits: both invocations in progress at once
C21_BothWitness ==
    /\ op = "analyze_frames_parallel" /\ pc = "collecting"
    /\ args.max_concurrent_requests = 2
    /\ Cardinality(InProgress) = 2

\* the frames (places in the list) whose every attempt failed
FailedFrames ==
    {k \in DOMAIN analyzer.futures :
        analyzer.futures[k].state = "done" /\ analyzer.futures[k].outcome.raised # ""}

\* analysis_function is called at most retry_attempts + 1 times for a
\* frame; a frame fails only after that many calls; the call that succeeds
\* is the last one (every call before it raised)
AttemptsBounded ==
    \A k \in DOMAIN analyzer.futures :
        LET future == analyzer.futures[k]
        IN  /\ future.calls <= args.retry_attempts + 1
            /\ k \in FailedFrames => future.calls = args.retry_attempts + 1
            /\ (future.state = "done" /\ k \notin FailedFrames) =>
                    future.calls = future.attempt + 1

\* C22: for each frame, analysis_function is invoked at most
\* retry_attempts + 1 times and never again after its first success; if
\* every attempt fails, the frame's result is the error marker {'error':
\* ..., 'frame_index': idx}, failed_analyses counts it, and the analyses of
\* all other frames still complete and are returned.
C22_RetriesAndErrorMarkers ==
    op = "analyze_frames_parallel" =>
        /\ AttemptsBounded
        /\ pc = "returned" =>
              LET analyses == result.value.analyses
                  returned == {analyses[i] : i \in DOMAIN analyses}
              IN  /\ result.value.metadata.failed_analyses = Cardinality(FailedFrames)
                  /\ \A k \in DOMAIN analyzer.futures :
                         LET future == analyzer.futures[k]
                         IN  IF k \in FailedFrames
                             THEN ErrorMarker(future.outcome.raised, future.frame_index)
                                      \in returned
                             ELSE future.outcome.value \in returned

\* frame indices that are all different, as the default ones are
DistinctIndices ==
    \A j, k \in DOMAIN analyzer.futures :
        analyzer.futures[j].frame_index = analyzer.futures[k].frame_index => j = k

\* what the code keeps of C22: the attempts are bounded for every call, and
\* every frame's result or error marker is returned when no two frames
\* share a frame index
C22_RetriesBounded ==
    op = "analyze_frames_parallel" =>
        /\ AttemptsBounded
        /\ pc = "returned" =>
              LET analyses == result.value.analyses
                  returned == {analyses[i] : i \in DOMAIN analyses}
              IN  /\ result.value.metadata.failed_analyses = Cardinality(FailedFrames)
                  /\ \A k \in DOMAIN analyzer.futures :
                         analyzer.futures[k].state = "done"
                  /\ DistinctIndices =>
                         \A k \in DOMAIN analyzer.futures :
                            LET future == analyzer.futures[k]
                            IN  IF k \in FailedFrames
                                THEN ErrorMarker(future.outcome.raised,
                                                 future.frame_index) \in returned
                                ELSE future.outcome.value \in returned

\* two frames under the same index 7, the first failing on both attempts:
\* its error marker is not among the analyses returned
C22_LostMarkerWitness ==
    /\ Returns("analyze_frames_parallel")
    /\ args.frame_indices = [list |-> <<7, 7>>] /\ args.retry_attempts = 1
    /\ FailedFrames = {1} /\ analyzer.futures[1].calls = 2
    /\ result.value.analyses = <<Analysis(2, 7)>>
    /\ result.value.metadata.failed_analyses = 1
    /\ result.value.metadata.successful_analyses = 0

\* what the caller expects for the frame at place k: its analysis, or its
\* error marker when every attempt failed
ResultFor(k) ==
    LET future == analyzer.futures[k]
    IN  IF k \in FailedFrames
        THEN ErrorMarker(future.outcome.raised, future.frame_index)
        ELSE future.outcome.value

\* C23: for every list of frames and every frame_indices list of the same
\* length, analyze_frames_parallel returns exactly one analysis per input
\* frame (len(analyses) == len(frames)), and analyses[i] is the result for
\* frames[i] / frame_indices[i], whatever order the concurrent calls
\* complete in; successful_analyses + failed_analyses == total_frames.
C23_OneAnalysisPerFrame ==
    Returns("analyze_frames_parallel") =>
        LET analyses == result.value.analyses
            metadata == result.value.metadata
        IN  /\ Len(analyses) = Len(args.frames)
            /\ \A i \in DOMAIN analyses : analyses[i] = ResultFor(i)
            /\ metadata.total_frames = Len(args.frames)
            /\ metadata.successful_analyses + metadata.failed_analyses
                  = metadata.total_frames

\* frame indices in strictly ascending order, as the default ones are
AscendingIndices ==
    \A j, k \in DOMAIN analyzer.futures :
        j < k => analyzer.futures[j].frame_index < analyzer.futures[k].frame_index

\* what the code keeps of C23: the analyses are listed by ascending frame
\* index, one for each distinct index, which is one per frame in the order
\* of the frames when the indices are strictly ascending
C23_SortedByFrameIndex ==
    Returns("analyze_frames_parallel") =>
        LET analyses == result.value.analyses
            metadata == result.value.metadata
            indices == {analyzer.futures[k].frame_index : k \in DOMAIN analyzer.futures}
        IN  /\ Len(analyses) = Cardinality(indices)
            /\ \A i \in DOMAIN analyses :
                   /\ analyses[i] \in {ResultFor(k) : k \in DOMAIN analyzer.futures}
                   /\ \A j \in DOMAIN analyses :
                          i < j => analyses[i].frame_index < analyses[j].frame_index
            /\ metadata.successful_analyses + metadata.failed_analyses = Len(analyses)
            /\ AscendingIndices =>
                   /\ Len(analyses) = Len(args.frames)
                   /\ \A i \in DOMAIN analyses : analyses[i] = ResultFor(i)

\* frame indices [7, 3]: the analysis of the second frame comes first
C23_ReorderedWitness ==
    /\ Returns("analyze_frames_parallel")
    /\ args.frame_indices = [list |-> <<7, 3>>]
    /\ FailedFrames = {}
    /\ result.value.analyses = <<Analysis(2, 3), Analysis(1, 7)>>

\* the permits out: those acquired and not released yet
PermitsHeld ==
    {k \in DOMAIN analyzer.futures : analyzer.futures[k].state \in {"sleeping", "analysing"}}

\* C28: if every invocation of analysis_function terminates,
\* analyze_frames_parallel eventually returns, for any number of frames,
\* any max_concurrent_requests >= 1 and any retry_attempts >= 0 (no
\* deadlock), and when it returns every semaphore permit that was acquired
\* has been released, also for frames whose analysis raised on every
\* attempt.
C28_ReturnsWithPermitsReleased ==
    /\ <>(pc = "returned" /\ op = "analyze_frames_parallel")
    /\ [](Returns("analyze_frames_parallel") =>
            /\ analyzer._semaphore = args.max_concurrent_requests
            /\ PermitsHeld = {}
            /\ \A k \in DOMAIN analyzer.futures : analyzer.futures[k].state = "done")
    /\ [](op = "analyze_frames_parallel" =>
            analyzer._semaphore + Cardinality(PermitsHeld) = args.max_concurrent_requests)

\* two frames with one permit, the first failing on both attempts: the call
\* has returned and the permit is back
C28_Witness ==
    /\ Returns("analyze_frames_parallel")
    /\ args.max_concurrent_requests = 1 /\ args.retry_attempts = 1
    /\ Len(analyzer.futures) = 2
    /\ FailedFrames = {1}
    /\ analyzer._semaphore = 1

\* the extractions that took longer than the timeout
OverTimeout ==
    {k \in DOMAIN result.futures : result.futures[k].duration > args.timeout}

\* the extractions that gave a frame within the timeout
ExtractedInTime ==
    {k \in DOMAIN result.futures :
        /\ k \notin OverTimeout
        /\ result.futures[k].outcome.raised = ""
        /\ result.futures[k].outcome.value # None}

\* C27: in extract_frames_parallel, if the extraction of one frame exceeds
\* the timeout, only that frame is skipped: it is recorded as failed, and
\* the frames whose extraction completed are still returned, in ascending
\* frame-index order, with total_frames_extracted + failed_frames ==
\* total_frames_requested.
C27_SlowFrameSkipped ==
    (/\ pc = "returned" /\ op = "extract_frames_parallel" /\ args.video_exists
     /\ OverTimeout # {}) =>
        /\ result.raised = ""
        /\ LET frames == result.value.frames
               metadata == result.value.metadata
               failed == {metadata.failed_indices[i] : i \in DOMAIN metadata.failed_indices}
           IN  /\ \A k \in OverTimeout : result.futures[k].frame_index \in failed
               /\ \A k \in ExtractedInTime :
                      \E i \in DOMAIN frames : frames[i] = result.futures[k].outcome.value
               /\ \A i, j \in DOMAIN frames :
                      i < j => frames[i].frame_index < frames[j].frame_index
               /\ metadata.total_frames_extracted + metadata.failed_frames
                     = metadata.total_frames_requested

\* what the code keeps: a failure to decode or an exception of one
\* extraction puts only that index among the failed ones; the frames come
\* back in ascending index order, one for each distinct index; an
\* extraction that has not finished by the one deadline makes the whole
\* call raise TimeoutError
C27_DeadlineForTheBatch ==
    (pc = "returned" /\ op = "extract_frames_parallel" /\ args.video_exists) =>
        LET late == {k \in DOMAIN result.futures :
                        result.futures[k].duration > args.timeout * Len(args.frame_indices)}
        IN  /\ late # {} => result.raised = "TimeoutError"
            /\ result.raised \in {"", "TimeoutError"}
            /\ result.raised = "" =>
                  LET frames == result.value.frames
                      metadata == result.value.metadata
                  IN  /\ \A i, j \in DOMAIN frames :
                             i < j => frames[i].frame_index < frames[j].frame_index
                      /\ {frames[i] : i \in DOMAIN frames}
                            = {result.futures[k].outcome.value :
                                  k \in {j \in DOMAIN result.futures :
                                            /\ result.futures[j].outcome.raised = ""
                                            /\ result.futures[j].outcome.value # None}}
                      /\ metadata.failed_frames
                            = Cardinality({k \in DOMAIN result.futures :
                                  \/ result.futures[k].outcome.raised # ""
                                  \/ result.futures[k].outcome.value = None})

\* timeout 1, two frames: the second extraction takes 2 seconds, more than
\* the timeout, and its frame is returned all the same
C27_SlowFrameReturnedWitness ==
    /\ Returns("extract_frames_parallel")
    /\ args.frame_indices = <<3, 7>> /\ args.max_workers = 2
    /\ result.futures[1].duration = 1 /\ result.futures[2].duration = 2
    /\ result.value.frames = <<[frame_index |-> 3], [frame_index |-> 7]>>
    /\ result.value.metadata.failed_frames = 0

\* the second extraction takes 3 seconds: the call raises TimeoutError and
\* the first frame is not returned
C27_BatchLostWitness ==
    /\ pc = "returned" /\ op = "extract_frames_parallel" /\ args.video_exists
    /\ args.frame_indices = <<3, 7>> /\ args.max_workers = 2
    /\ result.futures[1].duration = 1 /\ result.futures[2].duration = 3
    /\ result.raised = "TimeoutError"
====
